---- MODULE Spec2Model ----
(***************************************************************************)
(* The data reconciliation pipeline of scifi-boekenclub:                   *)
(*   load_and_combine_goodreads_data -> pivot_goodreads_data ->            *)
(*   load_bookclub_data -> match_dataframes -> merge_manual_ratings ->     *)
(*   sort -> save_processed_data,                                          *)
(* as run by process_bookclub_data (src/src/scifi/data_processor.py).      *)
(*                                                                         *)
(* A table (polars DataFrame) is a record                                  *)
(*   [columns |-> <sequence of column names>, rows |-> <sequence of rows>] *)
(* and a row is a function from the column names to cells.  A cell is a    *)
(* set of at most one value: Null is the empty set, Some(v) is {v}.        *)
(* Strings held in cells (titles, authors) are sequences of characters, so *)
(* that str.to_lowercase and str.strip_chars are computed character by     *)
(* character.  Ratings are exact fractions <<numerator, denominator>>.     *)
(***************************************************************************)
EXTENDS Integers, Sequences, FiniteSets, TLC

VARIABLES
    pc,                    \* the position of the run
    goodreads_dir,         \* Null when the export directory is missing, else Some(its CSV files)
    goodreads_df,          \* the combined export table (long format)
    reviewer_mapping,      \* export path -> member name
    bookclub_file,         \* Null when the meeting-log file is missing, else Some(its parsed cells)
    error,                 \* Null, or Some(the exception the run raised)
    returned,              \* Null, or Some(the tuple process_bookclub_data returned)
    artifacts,             \* the output files written so far
    bookclub_df,           \* the meeting log, as read_bookclub returns it
    goodreads_pivot_df,    \* the pivoted reviewer table
    manual_ratings_path,   \* "None" or the path of the manual ratings file
    manual_ratings_file,   \* Null when no file is at the path, else Some(table in the file)
    matched,               \* how -> Null or Some(result of the call match_dataframes(.., how))
    bookclub_processed_df, \* first result of match_and_merge_data
    unmatched_df,          \* second result of match_and_merge_data
    rerun,                 \* Null, or Some(the outcome of a second call on the same files)
    df_goodreads           \* the table file_utils.read_goodreads returned

vars == <<pc, goodreads_dir, goodreads_df, reviewer_mapping, bookclub_file,
          error, returned, artifacts, bookclub_df, goodreads_pivot_df,
          manual_ratings_path, manual_ratings_file, matched,
          bookclub_processed_df, unmatched_df, rerun,
          df_goodreads>>

----------------------------------------------------------------------------
(* Bounds of the model.                                                    *)

MaxGoodreadsRows == 2
MaxBookclubRows == 2
MaxManualRows == 2
MaxExportRows == 2

----------------------------------------------------------------------------
(* Cells.                                                                  *)

Null == {}
Some(v) == {v}
Val(cell) == CHOOSE v \in cell : TRUE

Range(s) == {s[i] : i \in DOMAIN s}

SeqsUpTo(S, n) == UNION {[1..k -> S] : k \in 0..n}

RECURSIVE Flatten(_)
Flatten(ss) == IF ss = <<>> THEN <<>> ELSE Head(ss) \o Flatten(Tail(ss))

\* The distinct elements of s, in order of first appearance.
RECURSIVE Unique(_)
Unique(s) ==
    IF s = <<>> THEN <<>>
    ELSE LET r == Unique(SubSeq(s, 1, Len(s) - 1))
             l == s[Len(s)]
         IN IF l \in Range(r) THEN r ELSE Append(r, l)

EmptyTable == [columns |-> <<>>, rows |-> <<>>]

----------------------------------------------------------------------------
(* Strings.                                                                *)

LowerChar(c) ==
    CASE c = "D" -> "d"
      [] c = "U" -> "u"
      [] c = "S" -> "s"
      [] c = "H" -> "h"
      [] OTHER -> c

\* pl.col(on).str.to_lowercase(): null stays null.
to_lowercase(cell) == {[i \in DOMAIN s |-> LowerChar(s[i])] : s \in cell}

IsSpace(c) == c = " "

RECURSIVE StripLeft(_)
StripLeft(s) ==
    IF s # <<>> /\ IsSpace(Head(s)) THEN StripLeft(Tail(s)) ELSE s

RECURSIVE StripRight(_)
StripRight(s) ==
    IF s # <<>> /\ IsSpace(s[Len(s)]) THEN StripRight(SubSeq(s, 1, Len(s) - 1)) ELSE s

\* Faulty variant: only the leading whitespace is removed.
strip_chars_start(cell) == {StripLeft(s) : s \in cell}

\* pl.col(..).str.strip_chars(): leading and trailing whitespace removed.
strip_chars(cell) == {StripRight(StripLeft(s)) : s \in cell}

----------------------------------------------------------------------------
(* Exact arithmetic on ratings.                                            *)

RECURSIVE GCD(_, _)
GCD(a, b) == IF b = 0 THEN a ELSE GCD(b, a % b)

Frac(n, d) == LET g == GCD(n, d) IN <<n \div g, d \div g>>

FracAdd(a, b) == Frac(a[1] * b[2] + b[1] * a[2], a[2] * b[2])

RECURSIVE FracSum(_)
FracSum(s) == IF s = <<>> THEN <<0, 1>> ELSE FracAdd(Head(s), FracSum(Tail(s)))

\* polars mean over a sequence of cells: nulls are skipped, and the mean of
\* no value is null.
mean(cells) ==
    LET present == SelectSeq(cells, LAMBDA c : c # Null)
        total == FracSum([i \in DOMAIN present |-> Val(present[i])])
    IN IF present = <<>> THEN Null
       ELSE Some(Frac(total[1], total[2] * Len(present)))

\* Faulty variant: a null cell counts as a rating of zero.
mean_horizontal_nulls_as_zero(row, cols) ==
    IF cols = <<>> THEN Null
    ELSE LET total == FracSum([i \in DOMAIN cols |->
                                 IF row[cols[i]] = Null THEN <<0, 1>>
                                 ELSE Val(row[cols[i]])])
         IN Some(Frac(total[1], total[2] * Len(cols)))

\* pl.mean_horizontal(*cols) on one row.
mean_horizontal(row, cols) == mean([i \in DOMAIN cols |-> row[cols[i]]])

\* Faulty variant: the manual rating wins over the existing one.
coalesce_manual_first(a, b) == IF b # Null THEN b ELSE a

\* Faulty variant: the manual rating is never used.
coalesce_existing_only(a, b) == a

\* pl.coalesce([a, b]): the first non-null.
coalesce(a, b) == IF a # Null THEN a ELSE b

----------------------------------------------------------------------------
(* DataFrame operations.                                                   *)

\* df.with_columns(expr.alias(name)), cells being the values of expr row by
\* row: the column is replaced, or appended.
with_column(df, name, cells) ==
    LET names == Range(df.columns) \cup {name}
        cols == IF name \in Range(df.columns) THEN df.columns
                ELSE Append(df.columns, name)
        rows == df.rows
    IN [columns |-> cols,
        rows |-> [i \in DOMAIN rows |->
                    [c \in names |-> IF c = name THEN cells[i] ELSE rows[i][c]]]]

select(df, cols) ==
    LET names == Range(cols)
        rows == df.rows
    IN [columns |-> cols,
        rows |-> [i \in DOMAIN rows |-> [c \in names |-> rows[i][c]]]]

drop(df, names) == select(df, SelectSeq(df.columns, LAMBDA c : c \notin names))

\* df.rename(mapping), every key of the mapping being a column of df.
rename(df, mapping) ==
    LET new(c) == IF c \in DOMAIN mapping THEN mapping[c] ELSE c
        old(n) == CHOOSE c \in Range(df.columns) : new(c) = n
        cols == [i \in DOMAIN df.columns |-> new(df.columns[i])]
    IN [columns |-> cols,
        rows |-> [i \in DOMAIN df.rows |-> [n \in Range(cols) |-> df.rows[i][old(n)]]]]

\* left.join(right, on=key, how=how, suffix=suffix) for how in inner, left,
\* anti.  A null key matches nothing.  The right key column is not repeated;
\* a right column whose name is taken on the left gets the suffix.
join(left, right, key, how, suffix) ==
    LET lnames == Range(left.columns)
        rcols == SelectSeq(right.columns, LAMBDA c : c # key)
        rname(c) == IF c \in lnames THEN c \o suffix ELSE c
        newcols == [i \in DOMAIN rcols |-> rname(rcols[i])]
        names == lnames \cup Range(newcols)
        orig == [n \in Range(newcols) |-> CHOOSE c \in Range(rcols) : rname(c) = n]
        rrows == right.rows
        hits(l) == SelectSeq(rrows, LAMBDA r : l[key] # Null /\ r[key] = l[key])
        glue(l, r) == [c \in names |-> IF c \in lnames THEN l[c] ELSE r[orig[c]]]
        nulls(l) == [c \in names |-> IF c \in lnames THEN l[c] ELSE Null]
        block(l) == LET h == hits(l)
                    IN IF h # <<>> THEN [j \in DOMAIN h |-> glue(l, h[j])]
                       ELSE IF how = "left" THEN <<nulls(l)>> ELSE <<>>
    IN IF how = "anti"
       THEN [columns |-> left.columns,
             rows |-> SelectSeq(left.rows, LAMBDA l : hits(l) = <<>>)]
       ELSE [columns |-> left.columns \o newcols,
             rows |-> Flatten([i \in DOMAIN left.rows |-> block(left.rows[i])])]

----------------------------------------------------------------------------
(* Casts of CSV text to numbers.  Numbers are exact fractions.             *)

Digits == <<"0", "1", "2", "3", "4", "5", "6", "7", "8", "9">>

IsDigit(c) == c \in Range(Digits)

DigitValue(c) == (CHOOSE i \in DOMAIN Digits : Digits[i] = c) - 1

RECURSIVE DigitsValue(_)
DigitsValue(s) ==
    IF s = <<>> THEN 0
    ELSE DigitsValue(SubSeq(s, 1, Len(s) - 1)) * 10 + DigitValue(s[Len(s)])

RECURSIVE Pow10(_)
Pow10(k) == IF k = 0 THEN 1 ELSE 10 * Pow10(k - 1)

AllDigits(s) == \A i \in DOMAIN s : IsDigit(s[i])

\* The text without its sign, and the sign.
Unsigned(s) == IF s # <<>> /\ Head(s) \in {"-", "+"} THEN Tail(s) ELSE s
Sign(s) == IF s # <<>> /\ Head(s) = "-" THEN -1 ELSE 1

\* The text is a whole number: an optional sign and one or more digits.
IsIntText(s) == Unsigned(s) # <<>> /\ AllDigits(Unsigned(s))

\* The text is a decimal number: an optional sign, digits, and at most one
\* point among them.
IsFloatText(s) ==
    LET u == Unsigned(s)
        points == {i \in DOMAIN u : u[i] = "."}
        digits == SelectSeq(u, LAMBDA c : c # ".")
    IN /\ Cardinality(points) <= 1
       /\ digits # <<>>
       /\ AllDigits(digits)

FloatValue(s) ==
    LET u == Unsigned(s)
        digits == SelectSeq(u, LAMBDA c : c # ".")
        point == IF \E i \in DOMAIN u : u[i] = "."
                 THEN CHOOSE i \in DOMAIN u : u[i] = "."
                 ELSE Len(u) + 1
        decimals == Len(u) + 1 - point - (IF point <= Len(u) THEN 1 ELSE 0)
    IN Frac(Sign(s) * DigitsValue(digits), Pow10(decimals))

\* pl.col(..).cast(pl.Int64, strict=False): text that is not a whole number
\* becomes null.
cast_int(cell) ==
    {<<Sign(s) * DigitsValue(Unsigned(s)), 1>> : s \in {t \in cell : IsIntText(t)}}

\* pl.col(..).cast(pl.Float64, strict=False): text that is not a number
\* becomes null.
cast_float(cell) == {FloatValue(s) : s \in {t \in cell : IsFloatText(t)}}

----------------------------------------------------------------------------
(* The roster.  The model keeps the first two entries of the mapping.      *)

DionPath == "data/goodreads/clean/dion_goodreads_library_export.csv"
PeterPath == "data/goodreads/clean/goodreads_library_export-PHT_clean.csv"

get_reviewer_mapping == (DionPath :> "Dion") @@ (PeterPath :> "Peter")

\* list(reviewer_mapping.values()), in the order of the dict.
mapping_values(mapping) ==
    LET keys == SelectSeq(<<DionPath, PeterPath>>, LAMBDA k : k \in DOMAIN mapping)
    IN [i \in DOMAIN keys |-> mapping[keys[i]]]

----------------------------------------------------------------------------
(* Exceptions.  A function that raises is modelled as returning a record   *)
(* with the field error, the class of the exception.                       *)

IsError(x) == "error" \in DOMAIN x

\* An exception: its class and the class of its __cause__ ("None" when the
\* exception was not raised from another).
Raised(type, cause) == Some([type |-> type, cause |-> cause])

----------------------------------------------------------------------------
(* Source Reader: the export files.                                        *)

\* The columns of the combined export table.
goodreads_columns ==
    <<"title", "author", "rating", "average_goodreads_rating",
      "original_publication_year", "number_of_pages", "path">>

\* columns of load_and_combine_goodreads_data, in the order of the dict.
export_columns ==
    <<"Title", "Author", "My Rating", "Average Rating",
      "Original Publication Year", "Number of Pages">>

columns ==
    ("Title" :> "title") @@ ("Author" :> "author") @@ ("My Rating" :> "rating")
    @@ ("Average Rating" :> "average_goodreads_rating")
    @@ ("Original Publication Year" :> "original_publication_year")
    @@ ("Number of Pages" :> "number_of_pages")

read_shelf == <<"r", "e", "a", "d">>

\* pl.scan_csv(goodreads_dir, include_file_paths="path"): the rows of the
\* files one after the other, each with the path of its file.  A file is
\* [path, columns, rows], its cells being the text of the fields (null for
\* an empty field).
scan_csv(files) ==
    Flatten([i \in DOMAIN files |->
                [j \in DOMAIN files[i].rows |->
                    files[i].rows[j] @@ ("path" :> Some(files[i].path))]])

\* .with_columns(...) of lines 69-77 on one row that was selected and
\* renamed.
clean_export_row(raw) ==
    [title |-> strip_chars(raw["Title"]),
     author |-> strip_chars(raw["Author"]),
     rating |-> cast_float(raw["My Rating"]),
     average_goodreads_rating |-> cast_float(raw["Average Rating"]),
     original_publication_year |-> cast_int(raw["Original Publication Year"]),
     number_of_pages |-> cast_int(raw["Number of Pages"]),
     path |-> raw["path"]]

\* A strict cast of the row would raise: a field that has text which is not
\* a number.
CastFails(raw) ==
    \/ \E c \in {"My Rating", "Average Rating"} :
            raw[c] # Null /\ cast_float(raw[c]) = Null
    \/ \E c \in {"Original Publication Year", "Number of Pages"} :
            raw[c] # Null /\ cast_int(raw[c]) = Null

\* Lines 63-85 on the CSV files of the directory: strict tells whether the
\* casts are strict, keep_unrated whether a row without a positive rating
\* is kept with a null rating instead of being filtered out.
read_exports(files, strict, keep_unrated) ==
    LET needed == Range(export_columns) \cup {"Exclusive Shelf"}
        shelved == SelectSeq(scan_csv(files),
                       LAMBDA r : r["Exclusive Shelf"] = Some(read_shelf))
        cleaned == [i \in DOMAIN shelved |-> clean_export_row(shelved[i])]
        valid(r) == r["rating"] # Null /\ Val(r["rating"])[1] > 0
        unrated(r) == [r EXCEPT !["rating"] = Null]
    IN IF \E i \in DOMAIN files : ~(needed \subseteq Range(files[i].columns))
       THEN [error |-> "RuntimeError", cause |-> "ColumnNotFoundError"]
       ELSE IF strict /\ \E i \in DOMAIN shelved : CastFails(shelved[i])
       THEN [error |-> "RuntimeError", cause |-> "InvalidOperationError"]
       ELSE [columns |-> goodreads_columns,
             rows |-> IF keep_unrated
                      THEN [i \in DOMAIN cleaned |->
                               IF valid(cleaned[i]) THEN cleaned[i]
                               ELSE unrated(cleaned[i])]
                      ELSE SelectSeq(cleaned, valid)]

\* Lines 45-52 raise FileNotFoundError: the directory is Null when it does
\* not exist, else Some(the sequence of its *.csv files).
NotFound(dir) == dir = Null \/ Val(dir) = <<>>

\* Faulty variant: the filter asks for a rating that is not null, and not
\* for one above zero.
load_and_combine_goodreads_data_any_rating(dir) ==
    IF NotFound(dir) THEN [error |-> "FileNotFoundError", cause |-> "None"]
    ELSE LET df == read_exports(Val(dir), FALSE, FALSE)
             shelved == SelectSeq(scan_csv(Val(dir)),
                            LAMBDA r : r["Exclusive Shelf"] = Some(read_shelf))
             cleaned == [i \in DOMAIN shelved |-> clean_export_row(shelved[i])]
         IN IF IsError(df) THEN df
            ELSE [columns |-> goodreads_columns,
                  rows |-> SelectSeq(cleaned, LAMBDA r : r["rating"] # Null)]

\* Faulty variant: a row without a positive rating is kept, its rating null.
load_and_combine_goodreads_data_keep_unrated(dir) ==
    IF NotFound(dir) THEN [error |-> "FileNotFoundError", cause |-> "None"]
    ELSE read_exports(Val(dir), FALSE, TRUE)

\* Faulty variant: the casts are strict, text that is not a number raises.
load_and_combine_goodreads_data_strict(dir) ==
    IF NotFound(dir) THEN [error |-> "FileNotFoundError", cause |-> "None"]
    ELSE read_exports(Val(dir), TRUE, FALSE)

\* Faulty variant: a directory without CSV files gives an empty table.
load_and_combine_goodreads_data_no_csv_check(dir) ==
    IF dir = Null THEN [error |-> "FileNotFoundError", cause |-> "None"]
    ELSE read_exports(Val(dir), FALSE, FALSE)

load_and_combine_goodreads_data(dir) ==
    IF NotFound(dir) THEN [error |-> "FileNotFoundError", cause |-> "None"]
    ELSE read_exports(Val(dir), FALSE, FALSE)

\* Faulty variant: the rows of every shelf are read.
read_goodreads_every_shelf(dir) ==
    LET needed == Range(export_columns)
        rows == scan_csv(Val(dir))
    IN IF dir = Null THEN [error |-> "FileNotFoundError"]
       ELSE IF Val(dir) = <<>> THEN [error |-> "ComputeError"]
       ELSE IF \E i \in DOMAIN Val(dir) : ~(needed \subseteq Range(Val(dir)[i].columns))
       THEN [error |-> "ColumnNotFoundError"]
       ELSE [columns |-> goodreads_columns,
             rows |-> [i \in DOMAIN rows |->
                         [c \in Range(goodreads_columns) |->
                             IF c \in {"title", "author"}
                             THEN strip_chars(rows[i][IF c = "title" THEN "Title" ELSE "Author"])
                             ELSE IF c = "path" THEN rows[i]["path"]
                             ELSE rows[i][CHOOSE k \in DOMAIN columns : columns[k] = c]]]]

\* read_goodreads of file_utils.py: the rows on the read shelf, the six
\* columns renamed, title and author stripped, the other fields as they are
\* in the file.  A directory without a CSV file makes scan_csv raise
\* ComputeError.
read_goodreads(dir) ==
    LET needed == Range(export_columns) \cup {"Exclusive Shelf"}
        shelved == SelectSeq(scan_csv(Val(dir)),
                       LAMBDA r : r["Exclusive Shelf"] = Some(read_shelf))
    IN IF dir = Null THEN [error |-> "FileNotFoundError"]
       ELSE IF Val(dir) = <<>> THEN [error |-> "ComputeError"]
       ELSE IF \E i \in DOMAIN Val(dir) : ~(needed \subseteq Range(Val(dir)[i].columns))
       THEN [error |-> "ColumnNotFoundError"]
       ELSE [columns |-> goodreads_columns,
             rows |-> [i \in DOMAIN shelved |->
                         [c \in Range(goodreads_columns) |->
                             IF c \in {"title", "author"}
                             THEN strip_chars(shelved[i][IF c = "title" THEN "Title" ELSE "Author"])
                             ELSE IF c = "path" THEN shelved[i]["path"]
                             ELSE shelved[i][CHOOSE k \in DOMAIN columns : columns[k] = c]]]]

----------------------------------------------------------------------------
(* Source Reader: the meeting log.                                         *)

\* columns of read_bookclub, in the order of the dict.
bookclub_keys ==
    <<"Nummer", "Datum", "Boek", "Auteur", "Wie heeft gekozen?", "Locatie">>

bookclub_names ==
    <<"index", "date", "title", "author", "suggested_by", "location">>

\* The positions of the slashes of a text.
Slashes(s) == {i \in DOMAIN s : s[i] = "/"}

IsLeap(y) == (y % 4 = 0 /\ y % 100 # 0) \/ y % 400 = 0

DaysIn(m, y) ==
    IF m = 2 THEN (IF IsLeap(y) THEN 29 ELSE 28)
    ELSE IF m \in {4, 6, 9, 11} THEN 30 ELSE 31

\* The month, day and year texts of a text "month/day/year".
DateParts(s) ==
    LET a == CHOOSE i \in Slashes(s) : \A j \in Slashes(s) : i <= j
        b == CHOOSE i \in Slashes(s) : \A j \in Slashes(s) : j <= i
    IN <<SubSeq(s, 1, a - 1), SubSeq(s, a + 1, b - 1), SubSeq(s, b + 1, Len(s))>>

\* The text is a date in the format %m/%d/%Y.
IsDateText(s) ==
    /\ Cardinality(Slashes(s)) = 2
    /\ \A part \in Range(DateParts(s)) : part # <<>> /\ AllDigits(part)
    /\ DigitsValue(DateParts(s)[1]) \in 1..12
    /\ DigitsValue(DateParts(s)[2])
           \in 1..DaysIn(DigitsValue(DateParts(s)[1]), DigitsValue(DateParts(s)[3]))

\* pl.col("date").str.to_date("%m/%d/%Y") on a cell that holds a date text:
\* the date <<year, month, day>>; null stays null.
to_date(cell) ==
    {<<DigitsValue(DateParts(s)[3]), DigitsValue(DateParts(s)[1]),
       DigitsValue(DateParts(s)[2])>> : s \in cell}

\* Faulty variant: the title is taken as it is written in the file.
read_bookclub_title_unstripped(file) ==
    IF ~(Range(bookclub_keys) \subseteq Range(file.columns))
    THEN [error |-> "ColumnNotFoundError"]
    ELSE IF \E i \in DOMAIN file.rows :
                \E s \in file.rows[i]["Datum"] : ~IsDateText(s)
    THEN [error |-> "InvalidOperationError"]
    ELSE [columns |-> bookclub_names,
          rows |-> [i \in DOMAIN file.rows |->
                      [index |-> file.rows[i]["Nummer"],
                       date |-> to_date(file.rows[i]["Datum"]),
                       title |-> file.rows[i]["Boek"],
                       author |-> strip_chars(file.rows[i]["Auteur"]),
                       suggested_by |-> file.rows[i]["Wie heeft gekozen?"],
                       location |-> file.rows[i]["Locatie"]]]]

\* read_bookclub on the parsed cells of the file.  A file without one of
\* the columns makes select raise; a date text that is not in the format
\* makes the strict to_date raise.
read_bookclub(file) ==
    IF ~(Range(bookclub_keys) \subseteq Range(file.columns))
    THEN [error |-> "ColumnNotFoundError"]
    ELSE IF \E i \in DOMAIN file.rows :
                \E s \in file.rows[i]["Datum"] : ~IsDateText(s)
    THEN [error |-> "InvalidOperationError"]
    ELSE [columns |-> bookclub_names,
          rows |-> [i \in DOMAIN file.rows |->
                      [index |-> file.rows[i]["Nummer"],
                       date |-> to_date(file.rows[i]["Datum"]),
                       title |-> strip_chars(file.rows[i]["Boek"]),
                       author |-> strip_chars(file.rows[i]["Auteur"]),
                       suggested_by |-> file.rows[i]["Wie heeft gekozen?"],
                       location |-> file.rows[i]["Locatie"]]]]

\* Faulty variant: a meeting log that cannot be read gives an empty table.
load_bookclub_data_empty_on_error(file) ==
    IF file = Null \/ IsError(read_bookclub(Val(file)))
    THEN [columns |-> bookclub_names, rows |-> <<>>]
    ELSE read_bookclub(Val(file))

\* load_bookclub_data: the file is Null when no file is at the path.
load_bookclub_data(file) ==
    IF file = Null THEN [error |-> "FileNotFoundError", cause |-> "None"]
    ELSE LET df == read_bookclub(Val(file))
         IN IF IsError(df) THEN [error |-> "RuntimeError", cause |-> df.error]
            ELSE df

\* Date a is not after date b; a null date comes first.
DateLeq(a, b) ==
    \/ a = Null
    \/ /\ b # Null
       /\ \/ Val(a)[1] < Val(b)[1]
          \/ Val(a)[1] = Val(b)[1] /\ Val(a)[2] < Val(b)[2]
          \/ Val(a)[1] = Val(b)[1] /\ Val(a)[2] = Val(b)[2] /\ Val(a)[3] <= Val(b)[3]

\* df.sort("date"): the tables sort may return.  The rows are in ascending
\* order of date, nulls first; sort does not maintain the order of rows
\* with equal dates, so each of their orders is a possible result.
sort_by_date(df) ==
    LET n == Len(df.rows)
        orders == {f \in [1..n -> 1..n] :
                      /\ \A i, j \in 1..n : i # j => f[i] # f[j]
                      /\ \A i, j \in 1..n :
                             i < j => DateLeq(df.rows[f[i]]["date"], df.rows[f[j]]["date"])}
    IN {[columns |-> df.columns, rows |-> [i \in 1..n |-> df.rows[f[i]]]] : f \in orders}

----------------------------------------------------------------------------
(* Pivot Engine.                                                           *)

index_cols == <<"title", "author", "original_publication_year">>

\* pl.mean(col).over(index_cols): the mean of col over the rows that agree
\* with the row on index_cols.
mean_over(df, col, row) ==
    LET group == SelectSeq(df.rows,
                     LAMBDA r : \A c \in Range(index_cols) : r[c] = row[c])
    IN mean([i \in DOMAIN group |-> group[i][col]])

\* df.pivot("path", index=index, values="rating", aggregate_function="mean")
pivot(df, index) ==
    LET keys == Unique([i \in DOMAIN df.rows |-> [c \in Range(index) |-> df.rows[i][c]]])
        paths == Unique([i \in DOMAIN df.rows |-> Val(df.rows[i]["path"])])
        cell(k, p) ==
            LET group == SelectSeq(df.rows,
                             LAMBDA r : /\ \A c \in Range(index) : r[c] = k[c]
                                        /\ r["path"] = Some(p))
            IN mean([i \in DOMAIN group |-> group[i]["rating"]])
    IN [columns |-> index \o paths,
        rows |-> [i \in DOMAIN keys |->
                    [c \in Range(index) \cup Range(paths) |->
                        IF c \in Range(index) THEN keys[i][c] ELSE cell(keys[i], c)]]]

\* Faulty variant: the external rating and the page count are not averaged
\* over the book before they are used as index columns of the pivot.
pivot_goodreads_data_raw_index(goodreads, mapping) ==
    LET pivoted == pivot(goodreads,
                       index_cols \o <<"average_goodreads_rating", "number_of_pages">>)
        members == mapping_values(mapping)
        renamed == rename(pivoted, mapping)
    IN IF \E k \in DOMAIN mapping : k \notin Range(pivoted.columns)
       THEN [error |-> "ColumnNotFoundError"]
       ELSE with_column(renamed, "average_bookclub_rating",
                [i \in DOMAIN renamed.rows |-> mean_horizontal(renamed.rows[i], members)])

\* Faulty variant: the club average is taken over every rating column of
\* the pivot, also over a column that kept its file path as its name.
pivot_goodreads_data_every_path(goodreads, mapping) ==
    LET averaged ==
            with_column(
                with_column(goodreads, "average_goodreads_rating",
                    [i \in DOMAIN goodreads.rows |->
                        mean_over(goodreads, "average_goodreads_rating",
                                  goodreads.rows[i])]),
                "number_of_pages",
                [i \in DOMAIN goodreads.rows |->
                    mean_over(goodreads, "number_of_pages", goodreads.rows[i])])
        index == index_cols \o <<"average_goodreads_rating", "number_of_pages">>
        pivoted == pivot(averaged, index)
        renamed == rename(pivoted, mapping)
        ratings == SelectSeq(renamed.columns, LAMBDA c : c \notin Range(index))
    IN IF \E k \in DOMAIN mapping : k \notin Range(pivoted.columns)
       THEN [error |-> "ColumnNotFoundError"]
       ELSE with_column(renamed, "average_bookclub_rating",
                [i \in DOMAIN renamed.rows |-> mean_horizontal(renamed.rows[i], ratings)])

pivot_goodreads_data(goodreads, mapping) ==
    LET averaged ==
            with_column(
                with_column(goodreads, "average_goodreads_rating",
                    [i \in DOMAIN goodreads.rows |->
                        mean_over(goodreads, "average_goodreads_rating",
                                  goodreads.rows[i])]),
                "number_of_pages",
                [i \in DOMAIN goodreads.rows |->
                    mean_over(goodreads, "number_of_pages", goodreads.rows[i])])
        pivoted == pivot(averaged,
                       index_cols \o <<"average_goodreads_rating", "number_of_pages">>)
        members == mapping_values(mapping)
        renamed == rename(pivoted, mapping)
    IN IF \E k \in DOMAIN mapping : k \notin Range(pivoted.columns)
       THEN [error |-> "ColumnNotFoundError"]
       ELSE with_column(renamed, "average_bookclub_rating",
                [i \in DOMAIN renamed.rows |-> mean_horizontal(renamed.rows[i], members)])

----------------------------------------------------------------------------
(* Matcher.                                                                *)

\* df.with_columns(pl.col(on).str.to_lowercase().alias("temp_match_column"))
with_match_column(df, on) ==
    with_column(df, "temp_match_column",
                [i \in DOMAIN df.rows |-> to_lowercase(df.rows[i][on])])

\* Faulty variant: the titles are compared as written, without lower-casing.
match_dataframes_case_sensitive(bookclub, goodreads_pivot, on, how) ==
    drop(join(with_column(bookclub, "temp_match_column",
                  [i \in DOMAIN bookclub.rows |-> bookclub.rows[i][on]]),
              with_column(goodreads_pivot, "temp_match_column",
                  [i \in DOMAIN goodreads_pivot.rows |-> goodreads_pivot.rows[i][on]]),
              "temp_match_column", how, "_right"),
         {"temp_match_column"})

\* Faulty variant: the join key is taken from the author column.
match_dataframes_on_author(bookclub, goodreads_pivot, on, how) ==
    drop(join(with_match_column(bookclub, "author"),
              with_match_column(goodreads_pivot, "author"),
              "temp_match_column", how, "_right"),
         {"temp_match_column"})

\* Faulty variant: the anti join compares the titles as written, the other joins
\* lower-cased.
match_dataframes_anti_raw(bookclub, goodreads_pivot, on, how) ==
    IF how = "anti"
    THEN match_dataframes_case_sensitive(bookclub, goodreads_pivot, on, how)
    ELSE drop(join(with_match_column(bookclub, on),
                   with_match_column(goodreads_pivot, on),
                   "temp_match_column", how, "_right"),
              {"temp_match_column"})

\* Faulty variant: the join mode is ignored, every join is an inner join.
match_dataframes_always_inner(bookclub, goodreads_pivot, on, how) ==
    drop(join(with_match_column(bookclub, on),
              with_match_column(goodreads_pivot, on),
              "temp_match_column", "inner", "_right"),
         {"temp_match_column"})

\* Faulty variant: the anti join keeps the rows that have a match (a semi join).
match_dataframes_semi_for_anti(bookclub, goodreads_pivot, on, how) ==
    LET l == with_match_column(bookclub, on)
        r == with_match_column(goodreads_pivot, on)
        anti == join(l, r, "temp_match_column", "anti", "_right")
    IN IF how = "anti"
       THEN drop([columns |-> l.columns,
                  rows |-> SelectSeq(l.rows, LAMBDA x : x \notin Range(anti.rows))],
                 {"temp_match_column"})
       ELSE drop(join(l, r, "temp_match_column", how, "_right"), {"temp_match_column"})

match_dataframes(bookclub, goodreads_pivot, on, how) ==
    drop(join(with_match_column(bookclub, on),
              with_match_column(goodreads_pivot, on),
              "temp_match_column", how, "_right"),
         {"temp_match_column"})

----------------------------------------------------------------------------
(* Manual Override Merger.                                                 *)

\* pl.read_csv(path).with_columns(strip title, strip author, cast the rest
\* to Float64).  The file is given as the table of its parsed cells, or as
\* [raises |-> class] when pl.read_csv raises an exception of that class on
\* it.  A file without a title or an author column makes with_columns raise
\* ColumnNotFoundError.
read_manual_ratings(file) ==
    IF "raises" \in DOMAIN file THEN [error |-> file.raises]
    ELSE IF ~({"title", "author"} \subseteq Range(file.columns))
    THEN [error |-> "ColumnNotFoundError"]
    ELSE with_column(
             with_column(file, "title",
                 [i \in DOMAIN file.rows |-> strip_chars(file.rows[i]["title"])]),
             "author",
             [i \in DOMAIN file.rows |-> strip_chars(file.rows[i]["author"])])

bookclub_members_list(manual_ratings_df) ==
    SelectSeq(manual_ratings_df.columns, LAMBDA c : c \notin {"title", "author"})

manual_col(c) == c \o "_manual"

\* Faulty variant: the suffixed columns are left in the output.
manual_cols_kept(members, joined_names) == {}

\* The suffixed columns the function drops after coalescing.
manual_cols_to_drop(members, joined_names) ==
    {manual_col(c) : c \in {m \in Range(members) : manual_col(m) \in joined_names}}

\* Lines 236-265, for a given list of member columns.
merge_member_columns(processed, manual_ratings_df, on, members) ==
    LET joined_df ==
            drop(join(with_match_column(processed, on),
                      select(with_match_column(manual_ratings_df, on),
                             <<"temp_match_column">> \o members),
                      "temp_match_column", "left", "_manual"),
                 {"temp_match_column"})
        jnames == Range(joined_df.columns)
        pnames == Range(processed.columns)
        coalesced == {c \in Range(members) : c \in pnames /\ manual_col(c) \in jnames}
        renamed == {c \in Range(members) : c \notin pnames /\ manual_col(c) \in jnames}
        added == SelectSeq(members, LAMBDA c : c \in renamed /\ c \notin jnames)
        cols == joined_df.columns \o added
        names == Range(cols)
        jrows == joined_df.rows
        with_columns ==
            [columns |-> cols,
             rows |-> [i \in DOMAIN jrows |->
                         LET r == jrows[i]
                         IN [c \in names |->
                                IF c \in coalesced THEN coalesce(r[c], r[manual_col(c)])
                                ELSE IF c \in renamed THEN r[manual_col(c)]
                                ELSE r[c]]]]
    IN IF coalesced \cup renamed # {}
       THEN drop(with_columns, manual_cols_to_drop(members, jnames))
       ELSE joined_df

\* Faulty variant: only the member columns the matched table already has are merged.
merge_manual_ratings_existing_members(processed, manual_ratings_df, on) ==
    merge_member_columns(processed, manual_ratings_df, on,
        SelectSeq(bookclub_members_list(manual_ratings_df),
                  LAMBDA c : c \in Range(processed.columns)))

\* Faulty variant: of the override rows of one title only the first is
\* joined.
merge_manual_ratings_first_override(processed, manual_ratings_df, on) ==
    LET rows == manual_ratings_df.rows
        first == {i \in DOMAIN rows :
                     \A j \in 1..(i - 1) :
                         to_lowercase(rows[j][on]) # to_lowercase(rows[i][on])}
        firsts == [columns |-> manual_ratings_df.columns,
                   rows |-> SelectSeq(rows, LAMBDA r :
                               \E i \in first : rows[i] = r)]
    IN merge_member_columns(processed, firsts, on,
                            bookclub_members_list(manual_ratings_df))

\* Faulty variant: a full join, which also keeps the override rows no
\* matched row joins, with the matched table's own columns null.
merge_manual_ratings_full(processed, manual_ratings_df, on) ==
    LET members == bookclub_members_list(manual_ratings_df)
        merged == merge_member_columns(processed, manual_ratings_df, on, members)
        keys == {to_lowercase(r[on]) : r \in Range(processed.rows)} \ {Null}
        left_over == SelectSeq(manual_ratings_df.rows,
                               LAMBDA m : to_lowercase(m[on]) \notin keys)
    IN [columns |-> merged.columns,
        rows |-> merged.rows \o
                 [i \in DOMAIN left_over |->
                     [c \in Range(merged.columns) |->
                         IF c \in Range(members) THEN left_over[i][c] ELSE Null]]]

merge_manual_ratings(processed, manual_ratings_df, on) ==
    merge_member_columns(processed, manual_ratings_df, on,
                         bookclub_members_list(manual_ratings_df))

----------------------------------------------------------------------------
(* match_and_merge_data.                                                   *)

ManualPath == "data/bookclub/manual_ratings.csv"

\* Faulty variant: the except clause catches every exception.
SwallowedAll ==
    {"ValueError", "FileNotFoundError", "ComputeError", "ColumnNotFoundError"}

\* Line 165: the exception classes the except clause names.
Swallowed == {"ValueError", "FileNotFoundError"}

\* Faulty variant: the merge is tried whenever a path is given, and no
\* exception is caught.
merge_if_provided_unguarded(inner, path, file) ==
    IF path = "None" THEN inner
    ELSE IF file = Null THEN [error |-> "FileNotFoundError"]
    ELSE LET manual_ratings_df == read_manual_ratings(Val(file))
         IN IF IsError(manual_ratings_df) THEN manual_ratings_df
            ELSE merge_manual_ratings(inner, manual_ratings_df, "title")

\* Lines 156-167: the matched table, with the manual ratings merged in when
\* a path is given and a file is there.  An exception of a class the except
\* clause names leaves the matched table as it was; any other is raised.
merge_if_provided(inner, path, file) ==
    IF path # "None" /\ file # Null
    THEN LET manual_ratings_df == read_manual_ratings(Val(file))
         IN IF IsError(manual_ratings_df)
            THEN IF manual_ratings_df.error \in Swallowed THEN inner
                 ELSE manual_ratings_df
            ELSE merge_manual_ratings(inner, manual_ratings_df, "title")
    ELSE inner

\* Faulty variant: the processed table is built with a left join.
match_and_merge_data_left(bookclub, goodreads_pivot, path, file) ==
    LET inner == match_dataframes(bookclub, goodreads_pivot, "title", "left")
        anti == match_dataframes(bookclub, goodreads_pivot, "title", "anti")
        merged == merge_if_provided(inner, path, file)
    IN IF IsError(merged)
       THEN [inner |-> inner, anti |-> anti, error |-> merged.error]
       ELSE [inner |-> inner, anti |-> anti, returns |-> <<merged, anti>>]

\* The function's locals after line 169: the results of its two calls of
\* match_dataframes, and the pair (bookclub_processed_df, unmatched_df) it
\* returns, or the exception it raises.
match_and_merge_data(bookclub, goodreads_pivot, path, file) ==
    LET inner == match_dataframes(bookclub, goodreads_pivot, "title", "inner")
        anti == match_dataframes(bookclub, goodreads_pivot, "title", "anti")
        merged == merge_if_provided(inner, path, file)
    IN IF IsError(merged)
       THEN [inner |-> inner, anti |-> anti, error |-> merged.error]
       ELSE [inner |-> inner, anti |-> anti, returns |-> <<merged, anti>>]

----------------------------------------------------------------------------
(* Inputs.                                                                 *)

Dune == <<"D", "u", "n", "e">>
dune == <<"d", "u", "n", "e">>
Ubik == <<"U", "b", "i", "k">>
Herbert == <<"H", "e", "r", "b", "e", "r", "t">>
herbert == <<"h", "e", "r", "b", "e", "r", "t">>
dune_padded == <<"d", "u", "n", "e", " ">>

Hows == {"inner", "left", "anti"}

\* Rows of the combined export table: Dion rates 3, Peter rates 5.
GoodreadsRowValues ==
    {[title |-> Some(t), author |-> Some(herbert),
      original_publication_year |-> Some(1965),
      rating |-> Some(<<pr[2], 1>>), path |-> Some(pr[1]),
      average_goodreads_rating |-> Some(<<4, 1>>),
      number_of_pages |-> Some(<<412, 1>>)] :
        t \in {Dune, dune, Ubik}, pr \in {<<DionPath, 3>>, <<PeterPath, 5>>}}

\* The pivots of the export tables of at most MaxGoodreadsRows rows that
\* pivot_goodreads_data accepts.
PivotTables ==
    LET pivots == {pivot_goodreads_data([columns |-> goodreads_columns, rows |-> g],
                                        get_reviewer_mapping) :
                      g \in SeqsUpTo(GoodreadsRowValues, MaxGoodreadsRows)}
    IN {p \in pivots : ~IsError(p)}

bookclub_columns == <<"index", "title", "author">>

\* Meeting logs of at most MaxBookclubRows rows; row i is meeting i.
BookclubTables(titles) ==
    {[columns |-> bookclub_columns,
      rows |-> [i \in DOMAIN ts |->
                  [index |-> Some(i), title |-> ts[i], author |-> Some(Herbert)]]] :
        ts \in SeqsUpTo(titles, MaxBookclubRows)}

\* Manual ratings files of at most MaxManualRows rows: Dion may have a manual
\* rating of 1, and Laurynas, who has no export, a manual rating of 2.
ManualRowValues ==
    {[title |-> Some(dune_padded), author |-> Some(herbert), Dion |-> d, Laurynas |-> l] :
        d \in {Null, Some(<<1, 1>>)}, l \in {Null, Some(<<2, 1>>)}}

ManualTables ==
    LET full == {[columns |-> <<"title", "author", "Dion", "Laurynas">>, rows |-> rs] :
                    rs \in SeqsUpTo(ManualRowValues, MaxManualRows)}
    IN full \cup {select(m, <<"title", "author", "Laurynas">>) : m \in full}

----------------------------------------------------------------------------
(* The state machine.                                                      *)

NotMatched == [h \in Hows |-> Null]

\* A call of match_and_merge_data on a meeting log, a pivot and a manual
\* ratings path.
Init ==
    /\ pc = "start"
    /\ goodreads_dir = Null
    /\ goodreads_df = EmptyTable
    /\ reviewer_mapping = get_reviewer_mapping
    /\ bookclub_file = Null
    /\ error = Null
    /\ returned = Null
    /\ rerun = Null
    /\ df_goodreads = EmptyTable
    /\ artifacts = {}
    /\ bookclub_df \in BookclubTables({Some(Dune), Some(Ubik)})
    /\ goodreads_pivot_df \in PivotTables
    /\ \/ manual_ratings_path = "None" /\ manual_ratings_file = Null
       \/ manual_ratings_path = ManualPath /\ manual_ratings_file = Null
       \/ manual_ratings_path = ManualPath
          /\ manual_ratings_file \in {Some(m) : m \in ManualTables}
    /\ matched = NotMatched
    /\ bookclub_processed_df = EmptyTable
    /\ unmatched_df = EmptyTable

MatchAndMergeData ==
    /\ pc = "start"
    /\ \E result \in {match_and_merge_data(bookclub_df, goodreads_pivot_df,
                                          manual_ratings_path, manual_ratings_file)} :
          /\ matched' = [how \in Hows |->
                            IF how = "inner" THEN Some(result.inner)
                            ELSE IF how = "anti" THEN Some(result.anti)
                            ELSE Null]
          /\ IF IsError(result)
             THEN /\ error' = Raised(result.error, "None")
                  /\ pc' = "failed"
                  /\ UNCHANGED <<bookclub_processed_df, unmatched_df>>
             ELSE /\ bookclub_processed_df' = result.returns[1]
                  /\ unmatched_df' = result.returns[2]
                  /\ pc' = "merged"
                  /\ UNCHANGED error
    /\ UNCHANGED <<rerun, df_goodreads, goodreads_dir, goodreads_df, reviewer_mapping,
                   bookclub_file,
                   returned, artifacts, bookclub_df, goodreads_pivot_df,
                   manual_ratings_path, manual_ratings_file>>

Next == MatchAndMergeData

Spec == Init /\ [][Next]_vars

\* A call of match_and_merge_data on a meeting log that may lack a title,
\* with no manual ratings file or with the file of Laurynas.
InitMerge ==
    /\ pc = "start"
    /\ goodreads_dir = Null
    /\ goodreads_df = EmptyTable
    /\ reviewer_mapping = get_reviewer_mapping
    /\ bookclub_file = Null
    /\ error = Null
    /\ returned = Null
    /\ rerun = Null
    /\ df_goodreads = EmptyTable
    /\ artifacts = {}
    /\ bookclub_df \in BookclubTables({Some(Dune), Some(Ubik), Null})
    /\ goodreads_pivot_df \in PivotTables
    /\ manual_ratings_path = ManualPath
    /\ manual_ratings_file \in
           {Null,
            Some([columns |-> <<"title", "author", "Laurynas">>,
                  rows |-> <<[title |-> Some(dune_padded), author |-> Some(herbert),
                              Laurynas |-> Some(<<2, 1>>)],
                             [title |-> Some(Ubik), author |-> Some(herbert),
                              Laurynas |-> Some(<<3, 1>>)]>>])}
    /\ matched = NotMatched
    /\ bookclub_processed_df = EmptyTable
    /\ unmatched_df = EmptyTable

NextMerge == MatchAndMergeData

SpecMerge == InitMerge /\ [][NextMerge]_vars

\* Calls of match_dataframes on a meeting log and a pivot, once per join mode.
InitMatch ==
    /\ pc = "start"
    /\ goodreads_dir = Null
    /\ goodreads_df = EmptyTable
    /\ reviewer_mapping = get_reviewer_mapping
    /\ bookclub_file = Null
    /\ error = Null
    /\ returned = Null
    /\ rerun = Null
    /\ df_goodreads = EmptyTable
    /\ artifacts = {}
    /\ bookclub_df \in BookclubTables({Some(Dune), Some(Ubik), Null})
    /\ goodreads_pivot_df \in PivotTables
    /\ manual_ratings_path = "None"
    /\ manual_ratings_file = Null
    /\ matched = NotMatched
    /\ bookclub_processed_df = EmptyTable
    /\ unmatched_df = EmptyTable

MatchDataframes(how) ==
    /\ matched[how] = Null
    /\ matched' = [matched EXCEPT
                     ![how] = Some(match_dataframes(bookclub_df, goodreads_pivot_df,
                                                    "title", how))]
    /\ pc' = "matched"
    /\ UNCHANGED <<rerun, df_goodreads, goodreads_dir, goodreads_df, reviewer_mapping,
                   bookclub_file,
                   error, returned, artifacts, bookclub_df, goodreads_pivot_df,
                   manual_ratings_path, manual_ratings_file,
                   bookclub_processed_df, unmatched_df>>

NextMatch == \E how \in Hows : MatchDataframes(how)

SpecMatch == InitMatch /\ [][NextMatch]_vars

----------------------------------------------------------------------------
(* Calls of pivot_goodreads_data on a long-format table and a mapping.     *)

\* Rows of a long-format table: Dion rates 3 or 1, Peter rates 5 or has a
\* null rating; the exports record the external rating and the page count
\* of a book as 4 and 412, or as 5 and null.
LongRowValues ==
    {[title |-> Some(t), author |-> Some(herbert),
      original_publication_year |-> Some(1965),
      rating |-> pr[2], path |-> Some(pr[1]),
      average_goodreads_rating |-> Some(<<meta[1], 1>>),
      number_of_pages |-> meta[2]] :
        t \in {Dune, Ubik},
        pr \in {<<DionPath, Some(<<3, 1>>)>>, <<DionPath, Some(<<1, 1>>)>>,
                <<PeterPath, Some(<<5, 1>>)>>, <<PeterPath, Null>>},
        meta \in {<<4, Some(<<412, 1>>)>>, <<5, Null>>}}

LongTables ==
    {[columns |-> goodreads_columns, rows |-> g] :
        g \in SeqsUpTo(LongRowValues, MaxGoodreadsRows)}

\* The whole mapping, and the mapping of a club of one.
ReviewerMappings == {get_reviewer_mapping, [p \in {DionPath} |-> "Dion"]}

InitPivot ==
    /\ pc = "start"
    /\ goodreads_dir = Null
    /\ goodreads_df \in LongTables
    /\ reviewer_mapping \in ReviewerMappings
    /\ bookclub_file = Null
    /\ error = Null
    /\ returned = Null
    /\ rerun = Null
    /\ df_goodreads = EmptyTable
    /\ artifacts = {}
    /\ bookclub_df = EmptyTable
    /\ goodreads_pivot_df = EmptyTable
    /\ manual_ratings_path = "None"
    /\ manual_ratings_file = Null
    /\ matched = NotMatched
    /\ bookclub_processed_df = EmptyTable
    /\ unmatched_df = EmptyTable

PivotGoodreadsData ==
    /\ pc = "start"
    /\ \E result \in {pivot_goodreads_data(goodreads_df, reviewer_mapping)} :
          IF IsError(result)
          THEN /\ error' = Raised(result.error, "None")
               /\ pc' = "failed"
               /\ UNCHANGED goodreads_pivot_df
          ELSE /\ goodreads_pivot_df' = result
               /\ pc' = "pivoted"
               /\ UNCHANGED error
    /\ UNCHANGED <<rerun, df_goodreads, goodreads_dir, goodreads_df, reviewer_mapping,
                   bookclub_file,
                   returned, artifacts, bookclub_df, manual_ratings_path,
                   manual_ratings_file, matched, bookclub_processed_df, unmatched_df>>

NextPivot == PivotGoodreadsData

SpecPivot == InitPivot /\ [][NextPivot]_vars

----------------------------------------------------------------------------
(* Calls of load_and_combine_goodreads_data on an export directory.        *)

raw_columns == export_columns \o <<"Exclusive Shelf">>

Text4 == <<"4">>
Text0 == <<"0">>
TextMinus1 == <<"-", "1">>
TextX == <<"x">>
Text4_5 == <<"4", ".", "5">>
Text1965 == <<"1", "9", "6", "5">>
Text412 == <<"4", "1", "2">>
to_read_shelf == <<"t", "o", "-", "r", "e", "a", "d">>

\* A row of an export file, as text.
ExportRow(title, rating, average, year, pages, shelf) ==
    ("Title" :> Some(title)) @@ ("Author" :> Some(herbert))
    @@ ("My Rating" :> rating) @@ ("Average Rating" :> Some(average))
    @@ ("Original Publication Year" :> Some(year))
    @@ ("Number of Pages" :> Some(pages)) @@ ("Exclusive Shelf" :> Some(shelf))

\* A title and an author with spaces before, after and between the words.
Dune_2_spaced == <<" ", "D", "u", "n", "e", " ", " ", "2", " ">>
F_Herbert_spaced == <<" ", " ", "F", " ", " ", " ", "H", " ">>

\* Rows of Dion's export: "My Rating" is 4, 0, -1, text that is no number,
\* or empty; at most one of the other numeric fields is text that is no
\* number; one row is on the to-read shelf; one row has a title and an
\* author with spaces around and between the words.
ExportRowValues ==
    {ExportRow(Dune, rating, meta[1], meta[2], meta[3], read_shelf) :
        rating \in {Some(Text4), Some(Text0), Some(TextMinus1), Some(TextX), Null},
        meta \in {<<Text4_5, Text1965, Text412>>, <<TextX, Text1965, Text412>>,
                  <<Text4_5, TextX, Text412>>, <<Text4_5, Text1965, TextX>>}}
    \cup {ExportRow(Dune, Some(Text0), Text4_5, Text1965, Text412, to_read_shelf)}
    \cup {[ExportRow(Dune_2_spaced, Some(Text4), Text4_5, Text1965, Text412, read_shelf)
              EXCEPT !["Author"] = Some(F_Herbert_spaced)]}

DionFiles ==
    {[path |-> DionPath, columns |-> raw_columns, rows |-> rs] :
        rs \in SeqsUpTo(ExportRowValues, MaxExportRows)}

\* Peter's export: he rates Ubik 5.
PeterFile ==
    [path |-> PeterPath, columns |-> raw_columns,
     rows |-> <<ExportRow(Ubik, Some(<<"5">>), Text4_5, Text1965, Text412, read_shelf)>>]

\* An export without the "Exclusive Shelf" column.
NoShelfFile ==
    [path |-> DionPath, columns |-> export_columns,
     rows |-> <<[c \in Range(export_columns) |->
                   ExportRow(Dune, Some(Text4), Text4_5, Text1965, Text412, read_shelf)[c]]>>]

\* The export directory: missing, without a CSV file, or with CSV files.
ExportDirs ==
    {Null, Some(<<>>), Some(<<NoShelfFile>>)}
    \cup {Some(<<f>>) : f \in DionFiles}
    \cup {Some(<<f, PeterFile>>) : f \in DionFiles}

InitLoad ==
    /\ pc = "start"
    /\ goodreads_dir \in ExportDirs
    /\ goodreads_df = EmptyTable
    /\ reviewer_mapping = get_reviewer_mapping
    /\ bookclub_file = Null
    /\ error = Null
    /\ returned = Null
    /\ rerun = Null
    /\ df_goodreads = EmptyTable
    /\ artifacts = {}
    /\ bookclub_df = EmptyTable
    /\ goodreads_pivot_df = EmptyTable
    /\ manual_ratings_path = "None"
    /\ manual_ratings_file = Null
    /\ matched = NotMatched
    /\ bookclub_processed_df = EmptyTable
    /\ unmatched_df = EmptyTable

LoadAndCombineGoodreadsData ==
    /\ pc = "start"
    /\ \E result \in {load_and_combine_goodreads_data(goodreads_dir)} :
          IF IsError(result)
          THEN /\ error' = Raised(result.error, result.cause)
               /\ pc' = "failed"
               /\ UNCHANGED goodreads_df
          ELSE /\ goodreads_df' = result
               /\ pc' = "loaded"
               /\ UNCHANGED error
    /\ UNCHANGED <<rerun, df_goodreads, goodreads_dir, reviewer_mapping, bookclub_file, returned,
                   artifacts, bookclub_df, goodreads_pivot_df, manual_ratings_path,
                   manual_ratings_file, matched, bookclub_processed_df, unmatched_df>>

NextLoad == LoadAndCombineGoodreadsData

SpecLoad == InitLoad /\ [][NextLoad]_vars

----------------------------------------------------------------------------
(* The two export readers, called one after the other on a directory.      *)

ReadGoodreads ==
    /\ pc \in {"loaded", "failed"}
    /\ \E result \in {read_goodreads(goodreads_dir)} :
          IF IsError(result)
          THEN /\ error' = Raised(result.error, "None")
               /\ pc' = "read_failed"
               /\ UNCHANGED df_goodreads
          ELSE /\ df_goodreads' = result
               /\ pc' = "read"
               /\ UNCHANGED error
    /\ UNCHANGED <<goodreads_dir, reviewer_mapping, bookclub_file, rerun, returned,
                   artifacts, goodreads_df, bookclub_df, goodreads_pivot_df,
                   manual_ratings_path, manual_ratings_file, matched,
                   bookclub_processed_df, unmatched_df>>

NextReaders == LoadAndCombineGoodreadsData \/ ReadGoodreads

SpecReaders == InitLoad /\ [][NextReaders]_vars

----------------------------------------------------------------------------
(* A run of __main__: process_bookclub_data, stage by stage, followed by   *)
(* save_processed_data, file by file.                                      *)

Date_02_15_2021 == <<"0", "2", "/", "1", "5", "/", "2", "0", "2", "1">>
Date_01_01_2020 == <<"0", "1", "/", "0", "1", "/", "2", "0", "2", "0">>
Date_iso == <<"2", "0", "2", "0", "-", "0", "1", "-", "0", "1">>

\* A row of the meeting-log file.
MeetingRow(number, date, title) ==
    ("Nummer" :> Some(number)) @@ ("Datum" :> Some(date)) @@ ("Boek" :> Some(title))
    @@ ("Auteur" :> Some(Herbert)) @@ ("Wie heeft gekozen?" :> Some("Dion"))
    @@ ("Locatie" :> Some("Utrecht"))

\* The meeting-log file: missing; two meetings, the later one first; two
\* meetings on one day; a date that is not in the format.
MeetingFiles ==
    {Null,
     Some([columns |-> bookclub_keys,
           rows |-> <<MeetingRow(1, Date_02_15_2021, Dune),
                      MeetingRow(2, Date_01_01_2020, Ubik)>>]),
     Some([columns |-> bookclub_keys,
           rows |-> <<MeetingRow(1, Date_01_01_2020, Ubik),
                      MeetingRow(2, Date_01_01_2020, Dune)>>]),
     Some([columns |-> bookclub_keys,
           rows |-> <<MeetingRow(1, Date_iso, Dune)>>])}

\* The manual ratings file: missing; Laurynas rates "dune " 2; a file
\* without a title column; a file pl.read_csv cannot parse; a file that is
\* there when exists() is called and gone when pl.read_csv opens it.
ManualFiles ==
    {Null,
     Some([columns |-> <<"title", "author", "Laurynas">>,
           rows |-> <<[title |-> Some(dune_padded), author |-> Some(herbert),
                       Laurynas |-> Some(<<2, 1>>)]>>]),
     Some([columns |-> <<"author", "Laurynas">>,
           rows |-> <<[author |-> Some(herbert), Laurynas |-> Some(<<2, 1>>)]>>]),
     Some([raises |-> "ComputeError"]),
     Some([raises |-> "FileNotFoundError"])}

\* The export directory: missing, without a CSV file, or with Dion's export
\* of at most one row, alone or next to Peter's.
RunDirs ==
    {Null, Some(<<>>), Some(<<NoShelfFile>>)}
    \cup {Some(<<f>>) : f \in {g \in DionFiles : Len(g.rows) <= 1}}
    \cup {Some(<<f, PeterFile>>) : f \in {g \in DionFiles : Len(g.rows) <= 1}}

Artifacts == {"processed_data.csv", "goodreads_unmatched.csv", "goodreads_combined.csv"}

InitRun ==
    /\ pc = "start"
    /\ goodreads_dir \in RunDirs
    /\ goodreads_df = EmptyTable
    /\ reviewer_mapping = get_reviewer_mapping
    /\ bookclub_file \in MeetingFiles
    /\ error = Null
    /\ returned = Null
    /\ rerun = Null
    /\ df_goodreads = EmptyTable
    /\ artifacts = {}
    /\ bookclub_df = EmptyTable
    /\ goodreads_pivot_df = EmptyTable
    /\ manual_ratings_path = ManualPath
    /\ manual_ratings_file \in ManualFiles
    /\ matched = NotMatched
    /\ bookclub_processed_df = EmptyTable
    /\ unmatched_df = EmptyTable

\* The files the run reads.
sources == <<goodreads_dir, reviewer_mapping, bookclub_file,
             manual_ratings_path, manual_ratings_file>>

\* Lines 239-241: an exception of class type in the try block is raised
\* again as a RuntimeError.
PipelineFails(type) ==
    /\ error' = Raised("RuntimeError", type)
    /\ pc' = "failed"

\* Step 1: Load and combine Goodreads data.
Step1LoadGoodreads ==
    /\ pc = "start"
    /\ \E result \in {load_and_combine_goodreads_data(goodreads_dir)} :
          IF IsError(result)
          THEN PipelineFails(result.error) /\ UNCHANGED goodreads_df
          ELSE goodreads_df' = result /\ pc' = "loaded" /\ UNCHANGED error
    /\ UNCHANGED <<sources, rerun, df_goodreads, returned, artifacts, bookclub_df,
                   goodreads_pivot_df,
                   matched, bookclub_processed_df, unmatched_df>>

\* Step 2: Pivot Goodreads data by reviewer.
Step2Pivot ==
    /\ pc = "loaded"
    /\ \E result \in {pivot_goodreads_data(goodreads_df, reviewer_mapping)} :
          IF IsError(result)
          THEN PipelineFails(result.error) /\ UNCHANGED goodreads_pivot_df
          ELSE goodreads_pivot_df' = result /\ pc' = "pivoted" /\ UNCHANGED error
    /\ UNCHANGED <<sources, rerun, df_goodreads, returned, artifacts, goodreads_df, bookclub_df,
                   matched, bookclub_processed_df, unmatched_df>>

\* Faulty variant: the meeting log is loaded also after an earlier stage
\* has failed.
Step3LoadBookclub_after_failure ==
    /\ pc \in {"pivoted", "failed"}
    /\ bookclub_df = EmptyTable
    /\ \E result \in {load_bookclub_data(bookclub_file)} :
          IF IsError(result)
          THEN PipelineFails(result.error) /\ UNCHANGED bookclub_df
          ELSE bookclub_df' = result /\ pc' = "bookclub_loaded" /\ UNCHANGED error
    /\ UNCHANGED <<sources, rerun, df_goodreads, returned, artifacts, goodreads_df,
                   goodreads_pivot_df, matched, bookclub_processed_df, unmatched_df>>

\* Step 3: Load bookclub data.
Step3LoadBookclub ==
    /\ pc = "pivoted"
    /\ \E result \in {load_bookclub_data(bookclub_file)} :
          IF IsError(result)
          THEN PipelineFails(result.error) /\ UNCHANGED bookclub_df
          ELSE bookclub_df' = result /\ pc' = "bookclub_loaded" /\ UNCHANGED error
    /\ UNCHANGED <<sources, rerun, df_goodreads, returned, artifacts, goodreads_df,
                   goodreads_pivot_df,
                   matched, bookclub_processed_df, unmatched_df>>

\* Step 4: Match and merge data.
Step4MatchAndMerge ==
    /\ pc = "bookclub_loaded"
    /\ \E result \in {match_and_merge_data(bookclub_df, goodreads_pivot_df,
                                          manual_ratings_path, manual_ratings_file)} :
          /\ matched' = [how \in Hows |->
                            IF how = "inner" THEN Some(result.inner)
                            ELSE IF how = "anti" THEN Some(result.anti)
                            ELSE Null]
          /\ IF IsError(result)
             THEN /\ PipelineFails(result.error)
                  /\ UNCHANGED <<bookclub_processed_df, unmatched_df>>
             ELSE /\ bookclub_processed_df' = result.returns[1]
                  /\ unmatched_df' = result.returns[2]
                  /\ pc' = "merged"
                  /\ UNCHANGED error
    /\ UNCHANGED <<sources, rerun, df_goodreads, returned, artifacts, goodreads_df, bookclub_df,
                   goodreads_pivot_df>>

\* Step 5: Sort by date, and return.
Step5SortAndReturn ==
    /\ pc = "merged"
    /\ \E sorted \in sort_by_date(bookclub_processed_df) :
          /\ bookclub_processed_df' = sorted
          /\ returned' = Some(<<sorted, unmatched_df, goodreads_df>>)
    /\ pc' = "returned"
    /\ UNCHANGED <<sources, rerun, df_goodreads, error, artifacts, goodreads_df, bookclub_df,
                   goodreads_pivot_df, matched, unmatched_df>>

\* Faulty variant: the processed table is written before it is sorted and
\* returned.
save_steps_before_return ==
    ("processed_data.csv" :> <<"merged", "saved_processed">>)
    @@ ("goodreads_unmatched.csv" :> <<"saved_processed", "saved_unmatched">>)
    @@ ("goodreads_combined.csv" :> <<"saved_unmatched", "saved">>)

\* The position of save_processed_data before it writes the file, and
\* after.
save_steps ==
    ("processed_data.csv" :> <<"returned", "saved_processed">>)
    @@ ("goodreads_unmatched.csv" :> <<"saved_processed", "saved_unmatched">>)
    @@ ("goodreads_combined.csv" :> <<"saved_unmatched", "saved">>)

\* df.write_csv(path) of save_processed_data writes the file.
WriteCsv(file) ==
    /\ pc = save_steps[file][1]
    /\ artifacts' = artifacts \cup {file}
    /\ pc' = save_steps[file][2]
    /\ UNCHANGED <<sources, rerun, df_goodreads, error, returned, goodreads_df, bookclub_df,
                   goodreads_pivot_df, matched, bookclub_processed_df, unmatched_df>>

\* mkdir or write_csv of save_processed_data raises OSError (the directory
\* cannot be made, the file cannot be written): nothing catches it.
WriteFails(file) ==
    /\ pc = save_steps[file][1]
    /\ error' = Raised("OSError", "None")
    /\ pc' = "failed"
    /\ UNCHANGED <<sources, rerun, df_goodreads, artifacts, returned, goodreads_df, bookclub_df,
                   goodreads_pivot_df, matched, bookclub_processed_df, unmatched_df>>

NextRun ==
    \/ Step1LoadGoodreads
    \/ Step2Pivot
    \/ Step3LoadBookclub
    \/ Step4MatchAndMerge
    \/ Step5SortAndReturn
    \/ \E file \in Artifacts : WriteCsv(file)
    \/ \E file \in Artifacts : WriteFails(file)

SpecRun == InitRun /\ [][NextRun]_vars

----------------------------------------------------------------------------
(* read_bookclub on a meeting-log file, followed by calls of               *)
(* match_dataframes on its result and a pivot.                             *)

Dune_2 == <<"D", "u", "n", "e", " ", "2">>
Dune_2_trailing == <<"D", "u", "n", "e", " ", "2", " ">>
Dune_2_leading == <<" ", "D", "u", "n", "e", " ", "2">>
Dune__2 == <<"D", "u", "n", "e", " ", " ", "2">>

\* Meeting-log files of at most MaxBookclubRows meetings, row i being
\* meeting i, and a file with a date that is not in the format.
TitledMeetingFiles ==
    {[columns |-> bookclub_keys,
      rows |-> [i \in DOMAIN ts |-> MeetingRow(i, Date_01_01_2020, ts[i])]] :
        ts \in SeqsUpTo({Dune_2, Dune_2_trailing, Dune_2_leading, Dune__2, Ubik},
                        MaxBookclubRows)}
    \cup {[columns |-> bookclub_keys, rows |-> <<MeetingRow(1, Date_iso, Dune_2)>>]}

\* The pivots of two exports: Dion and Peter rate "Dune 2", or Dion rates
\* "Dune 2" and Peter "Ubik".
TitledPivots ==
    {pivot_goodreads_data(
         [columns |-> goodreads_columns,
          rows |-> [i \in 1..2 |->
                      [title |-> Some(ts[i]), author |-> Some(herbert),
                       original_publication_year |-> Some(<<1965, 1>>),
                       rating |-> Some(<<2 * i + 1, 1>>),
                       path |-> Some(<<DionPath, PeterPath>>[i]),
                       average_goodreads_rating |-> Some(<<4, 1>>),
                       number_of_pages |-> Some(<<412, 1>>)]]],
         get_reviewer_mapping) :
        ts \in {<<Dune_2, Dune_2>>, <<Dune_2, Ubik>>}}

InitLog ==
    /\ pc = "start"
    /\ goodreads_dir = Null
    /\ goodreads_df = EmptyTable
    /\ reviewer_mapping = get_reviewer_mapping
    /\ bookclub_file \in {Some(f) : f \in TitledMeetingFiles}
    /\ error = Null
    /\ returned = Null
    /\ rerun = Null
    /\ df_goodreads = EmptyTable
    /\ artifacts = {}
    /\ bookclub_df = EmptyTable
    /\ goodreads_pivot_df \in TitledPivots
    /\ manual_ratings_path = "None"
    /\ manual_ratings_file = Null
    /\ matched = NotMatched
    /\ bookclub_processed_df = EmptyTable
    /\ unmatched_df = EmptyTable

ReadBookclub ==
    /\ pc = "start"
    /\ \E result \in {read_bookclub(Val(bookclub_file))} :
          IF IsError(result)
          THEN /\ error' = Raised(result.error, "None")
               /\ pc' = "failed"
               /\ UNCHANGED bookclub_df
          ELSE /\ bookclub_df' = result
               /\ pc' = "read"
               /\ UNCHANGED error
    /\ UNCHANGED <<sources, rerun, df_goodreads, returned, artifacts, goodreads_df,
                   goodreads_pivot_df, matched, bookclub_processed_df, unmatched_df>>

\* match_dataframes is called on the table read_bookclub returned.
MatchAfterRead(how) ==
    /\ pc \in {"read", "matched"}
    /\ MatchDataframes(how)

NextLog == ReadBookclub \/ \E how \in Hows : MatchAfterRead(how)

SpecLog == InitLog /\ [][NextLog]_vars

----------------------------------------------------------------------------
(* The first two stages of process_bookclub_data on an export directory.   *)

NextPivotLoaded == Step1LoadGoodreads \/ Step2Pivot

SpecPivotLoaded == InitLoad /\ [][NextPivotLoaded]_vars

----------------------------------------------------------------------------
(* Two calls of process_bookclub_data on the same files.                   *)

\* The orders in which the CSV files of the directory can be enumerated.
Enumerations(dir) ==
    IF dir = Null THEN {Null}
    ELSE LET n == Len(Val(dir))
             orders == {f \in [1..n -> 1..n] : \A i, j \in 1..n : i # j => f[i] # f[j]}
         IN {Some([i \in 1..n |-> Val(dir)[f[i]]]) : f \in orders}

\* process_bookclub_data, lines 213-241: the outcomes a call may have on
\* the files, an outcome being the tuple the call returns or the exception
\* it raises.
process_bookclub_data(dir, mapping, bookclub, path, manual) ==
    LET goodreads == load_and_combine_goodreads_data(dir)
        goodreads_pivot == pivot_goodreads_data(goodreads, mapping)
        meetings == load_bookclub_data(bookclub)
        result == match_and_merge_data(meetings, goodreads_pivot, path, manual)
        fails(type) == {[error |-> "RuntimeError", cause |-> type]}
    IN IF IsError(goodreads) THEN fails(goodreads.error)
       ELSE IF IsError(goodreads_pivot) THEN fails(goodreads_pivot.error)
       ELSE IF IsError(meetings) THEN fails(meetings.error)
       ELSE IF IsError(result) THEN fails(result.error)
       ELSE {[returns |-> <<sorted, result.returns[2], goodreads>>] :
                sorted \in sort_by_date(result.returns[1])}

\* The first call.
ProcessBookclubData ==
    /\ pc = "start"
    /\ \E dir \in Enumerations(goodreads_dir) :
          \E outcome \in process_bookclub_data(dir, reviewer_mapping, bookclub_file,
                                                manual_ratings_path, manual_ratings_file) :
              IF IsError(outcome)
              THEN /\ error' = Raised(outcome.error, outcome.cause)
                   /\ pc' = "failed"
                   /\ UNCHANGED <<returned, bookclub_processed_df, unmatched_df,
                                  goodreads_df>>
              ELSE /\ returned' = Some(outcome.returns)
                   /\ bookclub_processed_df' = outcome.returns[1]
                   /\ unmatched_df' = outcome.returns[2]
                   /\ goodreads_df' = outcome.returns[3]
                   /\ pc' = "returned"
                   /\ UNCHANGED error
    /\ UNCHANGED <<sources, rerun, df_goodreads, artifacts, bookclub_df,
                   goodreads_pivot_df, matched>>

\* The second call, on the same files.
ProcessBookclubDataAgain ==
    /\ pc \in {"returned", "failed"}
    /\ rerun = Null
    /\ \E dir \in Enumerations(goodreads_dir) :
          \E outcome \in process_bookclub_data(dir, reviewer_mapping, bookclub_file,
                                                manual_ratings_path, manual_ratings_file) :
              rerun' = Some(outcome)
    /\ UNCHANGED <<sources, df_goodreads, pc, error, returned, artifacts, goodreads_df, bookclub_df,
                   goodreads_pivot_df, matched, bookclub_processed_df, unmatched_df>>

NextRerun == ProcessBookclubData \/ ProcessBookclubDataAgain

SpecRerun == InitRun /\ [][NextRerun]_vars

----------------------------------------------------------------------------
(* Claims about the manual override merge, checked under Spec.             *)

Rows(df) == Range(df.rows)

\* match_and_merge_data has returned after merging a manual ratings file.
MergeRan ==
    /\ pc = "merged"
    /\ manual_ratings_path # "None"
    /\ manual_ratings_file # Null

\* The matched table handed to merge_manual_ratings, and the override table.
InnerMatched == Val(matched["inner"])
Overrides == read_manual_ratings(Val(manual_ratings_file))

RosterMembers == Range(mapping_values(get_reviewer_mapping))

\* The member-rating columns of a table: roster members and override members.
MemberColumns(df, overrides) ==
    SelectSeq(df.columns,
        LAMBDA c : c \in RosterMembers \cup Range(bookclub_members_list(overrides)))

\* Output row o stems from matched row m: they agree on every column of the
\* matched table that the override table does not name.
StemsFrom(o, m, matched_df, overrides) ==
    \A c \in Range(matched_df.columns) \ Range(bookclub_members_list(overrides)) :
        o[c] = m[c]

\* The override rows for the title of matched row m (compared lower-cased).
OverridesFor(m, overrides) ==
    {r \in Rows(overrides) :
        /\ to_lowercase(m["title"]) # Null
        /\ to_lowercase(r["title"]) = to_lowercase(m["title"])}

\* The values of column c the override table offers to matched row m, one
\* per override row of the title; null when it has no row of the title.
Offered(m, c, overrides) ==
    IF OverridesFor(m, overrides) = {} THEN {Null}
    ELSE {r[c] : r \in OverridesFor(m, overrides)}

\* C1: after match_and_merge_data has merged a manual ratings file, in every
\* row of the processed table average_bookclub_rating is the mean of the
\* non-null member-rating cells of that row.
C1_AverageIsMeanOfMemberCells ==
    MergeRan =>
        \A ov \in {Overrides} :
            \A row \in Rows(bookclub_processed_df) :
                row["average_bookclub_rating"]
                    = mean_horizontal(row, MemberColumns(bookclub_processed_df, ov))

\* C2: coalescing law.  Every matched row keeps, in every output row that
\* stems from it, each non-null member rating it had, whatever the override
\* table holds for the title and member; and every output row stems from a
\* matched row.
C2_CoalescingLaw ==
    MergeRan =>
        \A md \in {InnerMatched}, ov \in {Overrides} :
            /\ \A o \in Rows(bookclub_processed_df) :
                   \E m \in Rows(md) : StemsFrom(o, m, md, ov)
            /\ \A m \in Rows(md) :
                   /\ \E o \in Rows(bookclub_processed_df) : StemsFrom(o, m, md, ov)
                   /\ \A o \in Rows(bookclub_processed_df) :
                          StemsFrom(o, m, md, ov) =>
                              \A c \in RosterMembers :
                                  m[c] # Null => o[c] = m[c]

\* An export-derived rating met a different, non-null override and was kept.
C2_Witness ==
    /\ MergeRan
    /\ \E m \in Rows(InnerMatched), o \in Rows(bookclub_processed_df) :
           /\ StemsFrom(o, m, InnerMatched, Overrides)
           /\ m["Dion"] # Null
           /\ o["Dion"] = m["Dion"]
           /\ \E r \in OverridesFor(m, Overrides) :
                  "Dion" \in DOMAIN r /\ r["Dion"] # Null /\ r["Dion"] # m["Dion"]

\* C3: fallback law.  Where a matched row has a null member cell in a column
\* the override table names, the output rows that stem from it hold in that
\* column exactly the values the override table has for the title, one output
\* row per override row of the title; so a non-null override value for the
\* title and member is the value of the output cell.
C3_FallbackLaw ==
    MergeRan =>
        \A md \in {InnerMatched}, ov \in {Overrides} :
            \A m \in Rows(md) :
                \A c \in Range(bookclub_members_list(ov)) \cap Range(md.columns) :
                    m[c] = Null =>
                        {o[c] : o \in {x \in Rows(bookclub_processed_df) :
                                          StemsFrom(x, m, md, ov)}}
                            = Offered(m, c, ov)

\* A null member cell was filled with the override value.
C3_Witness ==
    /\ MergeRan
    /\ \E m \in Rows(InnerMatched), o \in Rows(bookclub_processed_df) :
           /\ StemsFrom(o, m, InnerMatched, Overrides)
           /\ "Dion" \in Range(bookclub_members_list(Overrides))
           /\ m["Dion"] = Null
           /\ o["Dion"] = Some(<<1, 1>>)
           /\ \E r \in OverridesFor(m, Overrides) : r["Dion"] = o["Dion"]

\* C4: an override member column that the matched table lacks is a column of
\* the output, and the output rows that stem from a matched row hold in it
\* exactly the override values for the row's title (null where the override
\* table has no row of the title).
C4_NewMemberColumn ==
    MergeRan =>
        \A md \in {InnerMatched}, ov \in {Overrides} :
            \A c \in Range(bookclub_members_list(ov)) \ Range(md.columns) :
                /\ c \in Range(bookclub_processed_df.columns)
                /\ \A m \in Rows(md) :
                       {o[c] : o \in {x \in Rows(bookclub_processed_df) :
                                         StemsFrom(x, m, md, ov)}}
                           = Offered(m, c, ov)

\* Laurynas, who has no export, got a column: one row holds the manual rating
\* and another, whose title the override table lacks, holds null.
C4_Witness ==
    /\ MergeRan
    /\ "Laurynas" \notin Range(InnerMatched.columns)
    /\ "Laurynas" \in Range(bookclub_processed_df.columns)
    /\ \E o \in Rows(bookclub_processed_df) : o["Laurynas"] = Some(<<2, 1>>)
    /\ \E m \in Rows(InnerMatched), o \in Rows(bookclub_processed_df) :
           /\ StemsFrom(o, m, InnerMatched, Overrides)
           /\ OverridesFor(m, Overrides) = {}
           /\ o["Laurynas"] = Null

\* C5: the output has the columns of the matched table followed by nothing
\* but the override member columns the matched table lacked, each column
\* once: one column per member name and no "_manual" column.
C5_OneColumnPerMember ==
    MergeRan =>
        \A md \in {InnerMatched}, ov \in {Overrides} :
            LET out == bookclub_processed_df.columns
                members == Range(bookclub_members_list(ov))
            IN /\ Range(out) = Range(md.columns) \cup members
               /\ Cardinality(Range(out)) = Len(out)
               /\ \A c \in members \cup RosterMembers :
                      /\ Cardinality({i \in DOMAIN out : out[i] = c}) = 1
                      /\ manual_col(c) \notin Range(out)

\* Both kinds of member column took part: Dion was coalesced, Laurynas added.
C5_Witness ==
    /\ MergeRan
    /\ Rows(bookclub_processed_df) # {}
    /\ "Dion" \in Range(bookclub_members_list(Overrides))
    /\ "Dion" \in Range(InnerMatched.columns)
    /\ "Laurynas" \in Range(bookclub_processed_df.columns)
    /\ \E o \in Rows(bookclub_processed_df) : o["Dion"] # Null /\ o["Laurynas"] # Null

----------------------------------------------------------------------------
(* Claims about match_dataframes, checked under SpecMatch.                 *)

AllMatched == \A how \in Hows : matched[how] # Null

Result(how) == Val(matched[how])

\* Meeting-log row b and reviewer row p have the same lower-cased title.
SameTitle(b, p) ==
    /\ to_lowercase(b["title"]) # Null
    /\ to_lowercase(b["title"]) = to_lowercase(p["title"])

HasMatch(b) == \E p \in Rows(goodreads_pivot_df) : SameTitle(b, p)

\* Output row o carries meeting-log row b in the meeting-log columns.
Carries(o, b) == \A c \in Range(bookclub_df.columns) : o[c] = b[c]

\* No two rows of the pivot have the same lower-cased title.
DistinctPivotTitles ==
    \A i, j \in DOMAIN goodreads_pivot_df.rows :
        i # j => to_lowercase(goodreads_pivot_df.rows[i]["title"])
                     # to_lowercase(goodreads_pivot_df.rows[j]["title"])

\* C6 as stated: |inner| <= |left| <= |meeting log|.
C6_RowCountChain ==
    AllMatched =>
        /\ Len(Result("inner").rows) <= Len(Result("left").rows)
        /\ Len(Result("left").rows) <= Len(bookclub_df.rows)

\* C6 amended: |inner| <= |left|, and |left| <= |meeting log| when no two
\* rows of the pivot have the same lower-cased title.
C6_RowCountChainAmended ==
    AllMatched =>
        /\ Len(Result("inner").rows) <= Len(Result("left").rows)
        /\ DistinctPivotTitles =>
               Len(Result("left").rows) <= Len(bookclub_df.rows)

\* Two meeting-log rows, one matched and one not, against a pivot of two
\* distinct titles: 1 <= 2 <= 2.
C6_Witness ==
    /\ AllMatched
    /\ DistinctPivotTitles
    /\ Len(goodreads_pivot_df.rows) = 2
    /\ Len(Result("inner").rows) = 1
    /\ Len(Result("left").rows) = 2
    /\ Len(bookclub_df.rows) = 2

\* C7 as stated: |anti| + |inner| = |meeting log|.
C7_AntiPlusInner ==
    AllMatched =>
        Len(Result("anti").rows) + Len(Result("inner").rows) = Len(bookclub_df.rows)

\* C7 amended: |anti| + |inner| >= |meeting log|, with equality when no two
\* rows of the pivot have the same lower-cased title.
C7_AntiPlusInnerAmended ==
    AllMatched =>
        /\ Len(Result("anti").rows) + Len(Result("inner").rows) >= Len(bookclub_df.rows)
        /\ DistinctPivotTitles =>
               Len(Result("anti").rows) + Len(Result("inner").rows)
                   = Len(bookclub_df.rows)

\* One row unmatched and one matched under a different casing: 1 + 1 = 2.
C7_Witness ==
    /\ AllMatched
    /\ DistinctPivotTitles
    /\ Len(Result("anti").rows) = 1
    /\ Len(Result("inner").rows) = 1
    /\ \E o \in Rows(Result("inner")) : o["title"] # o["title_right"]

\* C8: under inner and left, a meeting-log row and a reviewer row whose titles
\* are equal after lower-casing give an output row; every output row carries
\* a meeting-log row unchanged in the meeting-log columns (title and author
\* in the meeting log's casing); the key column is not in the output.
C8_CaseInsensitiveMatch ==
    \A how \in {"inner", "left"} :
        matched[how] # Null =>
            \A out \in {Result(how)} :
                /\ "temp_match_column" \notin Range(out.columns)
                /\ \A b \in Rows(bookclub_df), p \in Rows(goodreads_pivot_df) :
                       SameTitle(b, p) =>
                           \E o \in Rows(out) :
                               Carries(o, b) /\ o["title_right"] = p["title"]
                /\ \A o \in Rows(out) : \E b \in Rows(bookclub_df) : Carries(o, b)

\* "Dune" by "Herbert" of the meeting log met "dune" by "herbert".
C8_Witness ==
    /\ matched["inner"] # Null
    /\ matched["left"] # Null
    /\ \A how \in {"inner", "left"} :
           \E o \in Rows(Result(how)) :
               /\ o["title"] = Some(Dune) /\ o["title_right"] = Some(dune)
               /\ o["author"] = Some(Herbert) /\ o["author_right"] = Some(herbert)

\* C9: the left join carries every meeting-log row, and a row that carries a
\* meeting-log row without a match is null in every reviewer-side column.
C9_LeftJoinRetainsRows ==
    matched["left"] # Null =>
        \A out \in {Result("left")} :
            \A b \in Rows(bookclub_df) :
                /\ \E o \in Rows(out) : Carries(o, b)
                /\ ~HasMatch(b) =>
                       \A o \in Rows(out) :
                           Carries(o, b) =>
                               \A c \in Range(out.columns) \ Range(bookclub_df.columns) :
                                   o[c] = Null

\* One row of the left join is matched, another is null on the reviewer side.
C9_Witness ==
    /\ matched["left"] # Null
    /\ \E o \in Rows(Result("left")) : o["average_bookclub_rating"] # Null
    /\ \E o \in Rows(Result("left")) :
           /\ o["title"] # Null
           /\ o["title_right"] = Null
           /\ o["average_bookclub_rating"] = Null
           /\ o["Dion"] = Null /\ o["Peter"] = Null

\* C10: the anti join has the meeting-log columns only and exactly the
\* meeting-log rows without a match, each once; every row of the inner join
\* has a title that, lower-cased, is on both sides.
C10_AntiAndInnerRows ==
    /\ matched["anti"] # Null =>
           \A out \in {Result("anti")} :
               /\ out.columns = bookclub_df.columns
               /\ Rows(out) = {b \in Rows(bookclub_df) : ~HasMatch(b)}
               /\ Len(out.rows) = Cardinality(Rows(out))
    /\ matched["inner"] # Null =>
           \A o \in Rows(Result("inner")) :
               /\ \E b \in Rows(bookclub_df) :
                      to_lowercase(b["title"]) = to_lowercase(o["title"])
               /\ HasMatch(o)

\* The anti join kept the unmatched row and left out the matched one.
C10_Witness ==
    /\ matched["anti"] # Null
    /\ matched["inner"] # Null
    /\ Len(bookclub_df.rows) = 2
    /\ Len(Result("anti").rows) = 1
    /\ Len(Result("inner").rows) >= 1
    /\ \E b \in Rows(bookclub_df) : HasMatch(b) /\ b \notin Rows(Result("anti"))

----------------------------------------------------------------------------
(* Claims about pivot_goodreads_data, checked under SpecPivot.             *)

Pivoted == pc = "pivoted"

\* The (title, author, original_publication_year) triple of a row.
Triple(row) == [c \in Range(index_cols) |-> row[c]]

\* The rows of a table that have the triple k.
RowsOfTriple(df, k) == {i \in DOMAIN df.rows : Triple(df.rows[i]) = k}

\* The member names of the mapping handed to the pivot.
Members == mapping_values(reviewer_mapping)

\* C11: the pivot has exactly one row per distinct (title, author,
\* original_publication_year) triple of the long-format table, also when the
\* rows of a triple differ in average_goodreads_rating or number_of_pages.
C11_OneRowPerTriple ==
    Pivoted =>
        /\ \A i \in DOMAIN goodreads_df.rows :
               Cardinality(RowsOfTriple(goodreads_pivot_df,
                                        Triple(goodreads_df.rows[i]))) = 1
        /\ \A j \in DOMAIN goodreads_pivot_df.rows :
               RowsOfTriple(goodreads_df, Triple(goodreads_pivot_df.rows[j])) # {}

\* Two exports record different metadata for one book, which has one row in
\* the pivot, with the means 9/2 and 412.
C11_Witness ==
    /\ Pivoted
    /\ \E i, j \in DOMAIN goodreads_df.rows :
           /\ Triple(goodreads_df.rows[i]) = Triple(goodreads_df.rows[j])
           /\ goodreads_df.rows[i]["average_goodreads_rating"]
                  # goodreads_df.rows[j]["average_goodreads_rating"]
           /\ goodreads_df.rows[i]["number_of_pages"]
                  # goodreads_df.rows[j]["number_of_pages"]
    /\ Len(goodreads_pivot_df.rows) = 1
    /\ goodreads_pivot_df.rows[1]["average_goodreads_rating"] = Some(<<9, 2>>)
    /\ goodreads_pivot_df.rows[1]["number_of_pages"] = Some(<<412, 1>>)

\* The non-null cells of a row in the given columns.
Rated(row, cols) == SelectSeq([i \in DOMAIN cols |-> row[cols[i]]], LAMBDA c : c # Null)

\* Cell a holds the fraction total / count.
IsQuotient(a, total, count) ==
    /\ a # Null
    /\ Val(a)[1] * total[2] * count = total[1] * Val(a)[2]

\* C12: in every row of the pivot, average_bookclub_rating is the sum of the
\* non-null member cells of the row divided by their number, and null when
\* the row has no non-null member cell.
C12_AverageOfRatedMembers ==
    Pivoted =>
        \A row \in Rows(goodreads_pivot_df) :
            \A rated \in {Rated(row, Members)} :
                IF rated = <<>>
                THEN row["average_bookclub_rating"] = Null
                ELSE IsQuotient(row["average_bookclub_rating"],
                                FracSum([i \in DOMAIN rated |-> Val(rated[i])]),
                                Len(rated))

\* One book is rated by Dion alone (average 3, not 3/2), another by nobody
\* (average null).
C12_Witness ==
    /\ Pivoted
    /\ Len(Members) = 2
    /\ \E row \in Rows(goodreads_pivot_df) :
           /\ row["Dion"] = Some(<<3, 1>>)
           /\ row["Peter"] = Null
           /\ row["average_bookclub_rating"] = Some(<<3, 1>>)
    /\ \E row \in Rows(goodreads_pivot_df) :
           /\ row["Dion"] = Null
           /\ row["Peter"] = Null
           /\ row["average_bookclub_rating"] = Null

\* C13: a call of pivot_goodreads_data returns a table that has exactly one
\* rating column for each member name of the mapping, also for a member
\* whose export has no row in the long-format table.
C13_ColumnPerMappedMember ==
    pc # "start" =>
        /\ error = Null
        /\ \A m \in Range(Members) :
               Cardinality({i \in DOMAIN goodreads_pivot_df.columns :
                               goodreads_pivot_df.columns[i] = m}) = 1

----------------------------------------------------------------------------
(* Claims about load_and_combine_goodreads_data, checked under SpecLoad.   *)

Loaded == pc = "loaded"

\* The rows of the export files that are on the read shelf, in scan order.
ReadRows ==
    SelectSeq(scan_csv(Val(goodreads_dir)),
              LAMBDA r : r["Exclusive Shelf"] = Some(read_shelf))

\* "My Rating" of the row is a number above zero.
RatedTexts == {Some(Text4), Some(<<"5">>)}
HasRating(raw) == raw["My Rating"] \in RatedTexts

\* "My Rating" of the row is zero, negative, or text that is no number.
UnratedTexts == {Some(Text0), Some(TextMinus1), Some(TextX)}

\* The number the text of a field stands for; null for text that is no number.
Expected(cell) ==
    CASE cell = Some(Text4) -> Some(<<4, 1>>)
      [] cell = Some(<<"5">>) -> Some(<<5, 1>>)
      [] cell = Some(Text4_5) -> Some(<<9, 2>>)
      [] cell = Some(Text1965) -> Some(<<1965, 1>>)
      [] cell = Some(Text412) -> Some(<<412, 1>>)
      [] OTHER -> Null

\* Text t is text s without the spaces at its start and at its end: what
\* is between them is as it was.
IsStripOf(t, s) ==
    /\ t # <<>> => ~IsSpace(t[1]) /\ ~IsSpace(t[Len(t)])
    /\ \E a, b \in 0..Len(s) :
           /\ a + b <= Len(s)
           /\ t = SubSeq(s, a + 1, Len(s) - b)
           /\ \A i \in (1..a) \cup ((Len(s) - b + 1)..Len(s)) : IsSpace(s[i])

\* Row o of the combined table is export row raw.
IsRowOf(o, raw) ==
    /\ o["title"] # Null /\ IsStripOf(Val(o["title"]), Val(raw["Title"]))
    /\ o["author"] # Null /\ IsStripOf(Val(o["author"]), Val(raw["Author"]))
    /\ o["path"] = raw["path"]
    /\ o["average_goodreads_rating"] = Expected(raw["Average Rating"])
    /\ o["original_publication_year"] = Expected(raw["Original Publication Year"])
    /\ o["number_of_pages"] = Expected(raw["Number of Pages"])

\* C14 as stated: a read row whose "My Rating" is zero, negative or no
\* number is a row of the combined table, with a null rating.
C14_UnratedRowKeptWithNull ==
    Loaded =>
        \A i \in DOMAIN ReadRows :
            ReadRows[i]["My Rating"] \in UnratedTexts =>
                \E o \in Rows(goodreads_df) :
                    IsRowOf(o, ReadRows[i]) /\ o["rating"] = Null

\* C14 amended: a read row whose "My Rating" is zero, negative, no number or
\* empty is not in the combined table; the combined table has the read rows
\* with a rating above zero, in order, each with its rating, and no row with
\* a null rating.
C14_UnratedRowDropped ==
    Loaded =>
        \A kept \in {SelectSeq(ReadRows, HasRating)} :
            /\ Len(goodreads_df.rows) = Len(kept)
            /\ \A k \in DOMAIN kept :
                   /\ IsRowOf(goodreads_df.rows[k], kept[k])
                   /\ goodreads_df.rows[k]["rating"] = Expected(kept[k]["My Rating"])
            /\ \A o \in Rows(goodreads_df) :
                   o["rating"] # Null /\ Val(o["rating"])[1] > 0

\* Dion's export has a row rated 0 and a row whose rating is no number; of
\* the three read rows only Peter's is in the combined table.
C14_Witness ==
    /\ Loaded
    /\ Len(ReadRows) = 3
    /\ \E i \in DOMAIN ReadRows : ReadRows[i]["My Rating"] = Some(Text0)
    /\ \E i \in DOMAIN ReadRows : ReadRows[i]["My Rating"] = Some(TextX)
    /\ Len(goodreads_df.rows) = 1
    /\ goodreads_df.rows[1]["path"] = Some(PeterPath)
    /\ goodreads_df.rows[1]["rating"] = Some(<<5, 1>>)

\* Every export file of the directory has the columns the reader selects.
Readable ==
    /\ ~NotFound(goodreads_dir)
    /\ \A i \in DOMAIN Val(goodreads_dir) :
           Range(raw_columns) \subseteq Range(Val(goodreads_dir)[i].columns)

----------------------------------------------------------------------------
(* Claims about the optional manual ratings file.                          *)

\* C17: when the manual ratings path is None or no file is at the path, a
\* call of match_and_merge_data raises nothing and returns as processed
\* table the inner join of the meeting log and the pivot: same columns,
\* same rows, same values.
C17_AbsentFilePassesThrough ==
    (pc # "start" /\ (manual_ratings_path = "None" \/ manual_ratings_file = Null)) =>
        /\ pc = "merged"
        /\ error = Null
        /\ bookclub_processed_df
               = match_dataframes(bookclub_df, goodreads_pivot_df, "title", "inner")

\* A path is given, no file is there, and the matched table of one rated
\* book is returned.
C17_Witness ==
    /\ pc = "merged"
    /\ manual_ratings_path = ManualPath
    /\ manual_ratings_file = Null
    /\ error = Null
    /\ \E o \in Rows(bookclub_processed_df) : o["Dion"] # Null
    /\ bookclub_processed_df = InnerMatched

----------------------------------------------------------------------------
(* Claims about a run of the pipeline, checked under SpecRun.              *)

\* The export files exist and can be read, and none of their rows is kept.
ZeroRows == Readable /\ SelectSeq(ReadRows, HasRating) = <<>>

\* The run has ended: it raised, or it wrote its last file.
Ended == pc \in {"failed", "saved"}

MatchAndMergeCalled == matched["inner"] # Null

\* A manual ratings file is at the path, and reading it raises.
ManualReadFails ==
    /\ manual_ratings_file # Null
    /\ IsError(read_manual_ratings(Val(manual_ratings_file)))

\* The class of the exception that reading the manual ratings file raises.
ManualReadError == read_manual_ratings(Val(manual_ratings_file)).error

\* C18 as stated: when the manual ratings file exists and reading it
\* fails, match_and_merge_data raises to its caller: the run fails and no
\* processed table comes out of the call.
C18_BrokenFileSurfaces ==
    (MatchAndMergeCalled /\ ManualReadFails) =>
        /\ pc = "failed"
        /\ error # Null
        /\ bookclub_processed_df = EmptyTable
        /\ returned = Null

\* C18 amended: the failure is raised to the caller unless its class is
\* ValueError or FileNotFoundError; a failure of one of these two classes
\* is swallowed and the call returns the matched table without the merge.
C18_BrokenFileSurfacesUnlessCaught ==
    (MatchAndMergeCalled /\ ManualReadFails) =>
        IF ManualReadError \in {"ValueError", "FileNotFoundError"}
        THEN /\ error \in {Null, Raised("OSError", "None")}
             /\ pc = "merged" => bookclub_processed_df = InnerMatched
        ELSE /\ pc = "failed"
             /\ error = Raised("RuntimeError", ManualReadError)
             /\ bookclub_processed_df = EmptyTable
             /\ returned = Null

\* A manual ratings file without a title column made the call raise, while
\* the inner join had a row.
C18_Witness ==
    /\ pc = "failed"
    /\ MatchAndMergeCalled
    /\ manual_ratings_file # Null
    /\ "columns" \in DOMAIN Val(manual_ratings_file)
    /\ "title" \notin Range(Val(manual_ratings_file).columns)
    /\ error = Raised("RuntimeError", "ColumnNotFoundError")
    /\ Rows(InnerMatched) # {}
    /\ bookclub_processed_df = EmptyTable

\* Reading the export files, pivoting them, or reading the meeting log
\* raises.
ExportStageFails ==
    \/ NotFound(goodreads_dir)
    \/ ~Readable
    \/ \E member \in DOMAIN reviewer_mapping :
           \A i \in DOMAIN ReadRows :
               HasRating(ReadRows[i]) => ReadRows[i]["path"] # Some(member)

MeetingLogFails ==
    \/ bookclub_file = Null
    \/ IsError(read_bookclub(Val(bookclub_file)))

\* C19 as stated: process_bookclub_data returns its tables only when every
\* stage has succeeded, the override merge included; a run in which a stage
\* failed has raised and returned nothing.
C19_NoTableAfterFailedStage ==
    /\ returned # Null =>
           /\ ~ExportStageFails
           /\ ~MeetingLogFails
           /\ ~ManualReadFails
    /\ (pc = "failed" /\ error # Raised("OSError", "None")) => returned = Null

\* C19 amended: the same, except for a failure of the override merge whose
\* class is ValueError or FileNotFoundError: the call then returns the
\* matched table, sorted, without the merge.
C19_NoTableAfterFailedStageUnlessCaught ==
    /\ returned # Null =>
           /\ ~ExportStageFails
           /\ ~MeetingLogFails
           /\ ManualReadFails =>
                  /\ ManualReadError \in {"ValueError", "FileNotFoundError"}
                  /\ Val(returned)[1] \in sort_by_date(InnerMatched)
    /\ (pc = "failed" /\ error # Raised("OSError", "None")) => returned = Null
    /\ (pc \notin {"start", "loaded", "pivoted"} /\ (ExportStageFails \/ MeetingLogFails)) =>
           /\ pc = "failed"
           /\ returned = Null

\* The exports were read and pivoted, the meeting log has a date that is
\* not in the format, and the run has raised without returning a table.
C19_Witness ==
    /\ pc = "failed"
    /\ ~ExportStageFails
    /\ Rows(goodreads_pivot_df) # {}
    /\ bookclub_file # Null
    /\ MeetingLogFails
    /\ error = Raised("RuntimeError", "RuntimeError")
    /\ returned = Null
    /\ bookclub_processed_df = EmptyTable

\* C20 as stated: no output file is written before process_bookclub_data
\* has returned, and when the run has ended, in success or in an error,
\* either none or all three of the output files are written.
C20_AllOrNothingArtifacts ==
    /\ artifacts # {} => returned # Null
    /\ Ended => artifacts \in {{}, Artifacts}

\* C20 amended: no output file is written before process_bookclub_data has
\* returned; a run that ends in an error of the pipeline has written none,
\* a run that ends in success all three; a run that ends in an error of a
\* write has written the files that come before it in the order processed,
\* unmatched, combined.
C20_ArtifactsAfterPipeline ==
    /\ artifacts # {} => returned # Null
    /\ artifacts \in {{}, {"processed_data.csv"},
                       {"processed_data.csv", "goodreads_unmatched.csv"}, Artifacts}
    /\ (pc = "failed" /\ error # Raised("OSError", "None")) => artifacts = {}
    /\ pc = "saved" => artifacts = Artifacts /\ error = Null

\* The run has ended in success with its three files written.
C20_Witness ==
    /\ pc = "saved"
    /\ artifacts = Artifacts
    /\ returned # Null
    /\ error = Null
    /\ Rows(Val(returned)[1]) # {}

----------------------------------------------------------------------------
(* Claims about two calls on the same files, checked under SpecRerun.      *)

\* Two tables are the same up to the order of their columns.
SameTable(a, b) == Range(a.columns) = Range(b.columns) /\ a.rows = b.rows

----------------------------------------------------------------------------
(* Claims about the text of titles and authors.                            *)

\* The text has no space at its start or end and no two spaces in a row.
IsCollapsed(t) ==
    /\ t # <<>> => ~IsSpace(t[1]) /\ ~IsSpace(t[Len(t)])
    /\ \A i \in 1..(Len(t) - 1) : ~(IsSpace(t[i]) /\ IsSpace(t[i + 1]))

\* C22 as stated: the title and the author of every row of the combined
\* table have no whitespace at their start or end, and every run of
\* whitespace inside them is a single space.
C22_StrippedAndCollapsed ==
    Loaded =>
        \A o \in Rows(goodreads_df) :
            \A c \in {"title", "author"} : \A t \in o[c] : IsCollapsed(t)

\* C22 amended: the title and the author of every row of the combined
\* table are those of its export row with the whitespace at the start and
\* at the end removed; whitespace between the words is kept as it is.
C22_StrippedOnly ==
    Loaded =>
        \A kept \in {SelectSeq(ReadRows, HasRating)} :
            /\ Len(goodreads_df.rows) = Len(kept)
            /\ \A k \in DOMAIN kept :
                   /\ goodreads_df.rows[k]["title"]
                          = {t \in {Dune, Ubik, <<"D", "u", "n", "e", " ", " ", "2">>} :
                                IsStripOf(t, Val(kept[k]["Title"]))}
                   /\ goodreads_df.rows[k]["author"]
                          = {t \in {herbert, <<"F", " ", " ", " ", "H">>} :
                                IsStripOf(t, Val(kept[k]["Author"]))}

\* The export row with the spaced title and author is in the combined
\* table, with the spaces between the words.
C22_Witness ==
    /\ Loaded
    /\ \E i \in DOMAIN ReadRows : ReadRows[i]["Title"] = Some(Dune_2_spaced)
    /\ \E o \in Rows(goodreads_df) :
           /\ o["title"] = Some(<<"D", "u", "n", "e", " ", " ", "2">>)
           /\ o["author"] = Some(<<"F", " ", " ", " ", "H">>)

\* Text s is text t with whitespace added at its end.
TrailingAdded(s, t) ==
    /\ Len(s) > Len(t)
    /\ SubSeq(s, 1, Len(t)) = t
    /\ \A i \in (Len(t) + 1)..Len(s) : IsSpace(s[i])

\* Text s is text t with one more space between two of its words.
SpaceAdded(s, t) ==
    \E i \in 2..(Len(t) - 1) :
        /\ IsSpace(t[i])
        /\ s = SubSeq(t, 1, i) \o <<" ">> \o SubSeq(t, i + 1, Len(t))

\* The meetings of the file, and the rows of the pivot.
Meetings == Val(bookclub_file).rows
PivotRows == Range(goodreads_pivot_df.rows)

\* The call match_dataframes(.., how) was made and joined meeting i to
\* pivot row p.
JoinedTo(i, p, how) ==
    /\ matched[how] # Null
    /\ \E o \in Rows(Val(matched[how])) :
           /\ o["index"] = Meetings[i]["Nummer"]
           /\ o["title_right"] = p["title"]
           /\ \A c \in RosterMembers : o[c] = p[c]

\* The call match_dataframes(.., how) was made and has a row for meeting i
\* that is joined to no pivot row.
Unjoined(i, how) ==
    /\ matched[how] # Null
    /\ \E o \in Rows(Val(matched[how])) :
           /\ o["index"] = Meetings[i]["Nummer"]
           /\ "title_right" \in DOMAIN o => o["title_right"] = Null

\* C23 as stated: a meeting-log title that is a pivot title with trailing
\* whitespace added, or with one more space between two words, is not
\* joined to that pivot row by the inner or the left join.
C23_SpacedTitleUnmatched ==
    \A i \in DOMAIN Meetings : \A p \in PivotRows :
        \A s \in Meetings[i]["Boek"] : \A t \in p["title"] :
            (TrailingAdded(s, t) \/ SpaceAdded(s, t)) =>
                ~JoinedTo(i, p, "inner") /\ ~JoinedTo(i, p, "left")

\* C23 amended: a meeting-log title with one more space between two words
\* is not joined to the pivot row (it is in the anti join and has nulls in
\* the left join); a meeting-log title with whitespace added at its end is
\* joined to it by the inner and the left join, read_bookclub having
\* removed the whitespace.
C23_InnerSpaceUnmatchedTrailingMatched ==
    \A i \in DOMAIN Meetings : \A p \in PivotRows :
        \A s \in Meetings[i]["Boek"] : \A t \in p["title"] :
            /\ SpaceAdded(s, t) =>
                   /\ ~JoinedTo(i, p, "inner") /\ ~JoinedTo(i, p, "left")
                   /\ matched["left"] # Null => Unjoined(i, "left")
                   /\ matched["anti"] # Null => Unjoined(i, "anti")
            /\ TrailingAdded(s, t) =>
                   /\ matched["inner"] # Null => JoinedTo(i, p, "inner")
                   /\ matched["left"] # Null => JoinedTo(i, p, "left")
                   /\ ~Unjoined(i, "anti")

\* The log has "Dune 2 " and "Dune  2", the pivot "Dune 2": the three joins
\* were made, the first meeting is joined and the second is not.
C23_Witness ==
    /\ pc = "matched"
    /\ \A how \in Hows : matched[how] # Null
    /\ Len(Meetings) = 2
    /\ Meetings[1]["Boek"] = Some(Dune_2_trailing)
    /\ Meetings[2]["Boek"] = Some(Dune__2)
    /\ \E p \in PivotRows :
           /\ p["title"] = Some(Dune_2)
           /\ JoinedTo(1, p, "inner")
           /\ JoinedTo(1, p, "left")
    /\ Unjoined(2, "left")
    /\ Unjoined(2, "anti")
    /\ Len(Val(matched["inner"]).rows) = 1

----------------------------------------------------------------------------
(* Claims about the shelf filter, checked under SpecReaders.               *)

\* Both readers were called on the directory and returned.
BothRead == pc = "read" /\ goodreads_df.columns # <<>>

\* Every row of the export files, in scan order.
AllRows == scan_csv(Val(goodreads_dir))

\* The table has a row for each of the given export rows, in order.
HasRowsOf(df, raws) ==
    /\ Len(df.rows) = Len(raws)
    /\ \A k \in DOMAIN raws :
           /\ df.rows[k]["path"] = raws[k]["path"]
           /\ df.rows[k]["title"] # Null
           /\ IsStripOf(Val(df.rows[k]["title"]), Val(raws[k]["Title"]))

\* C24 as stated: the readers offer both rules.  Under the rule with the
\* filter, read_goodreads returns exactly the rows on the read shelf; under
\* the rule without it, a reader returns the rows of every shelf.
C24_BothShelfRules ==
    BothRead =>
        /\ HasRowsOf(df_goodreads, ReadRows)
        /\ HasRowsOf(df_goodreads, AllRows) \/ HasRowsOf(goodreads_df, AllRows)

\* C24 amended: every reader filters on the shelf, and none returns a row
\* of another shelf: read_goodreads returns exactly the rows on the read
\* shelf, load_and_combine_goodreads_data those of them that have a rating
\* above zero.
C24_ReadShelfOnly ==
    BothRead =>
        /\ HasRowsOf(df_goodreads, ReadRows)
        /\ HasRowsOf(goodreads_df, SelectSeq(ReadRows, HasRating))
        /\ \A df \in {df_goodreads, goodreads_df} :
               Len(df.rows) <= Len(ReadRows)

\* Dion's export has a row on the to-read shelf and a rated row on the
\* read shelf: both readers return the one row.
C24_Witness ==
    /\ BothRead
    /\ Len(AllRows) = 2
    /\ \E i \in DOMAIN AllRows : AllRows[i]["Exclusive Shelf"] = Some(to_read_shelf)
    /\ Len(ReadRows) = 1
    /\ Len(df_goodreads.rows) = 1
    /\ Len(goodreads_df.rows) = 1
    /\ df_goodreads.rows[1]["rating"] = Some(Text4)

----------------------------------------------------------------------------
(* Claims about the ratings of the combined table and of its pivot,        *)
(* checked under SpecPivotLoaded.                                          *)

\* The cell is null or holds a number above zero.
NullOrPositive(cell) ==
    \A r \in cell :
        /\ r \in Int \X Int
        /\ r[1] > 0
        /\ r[2] > 0

----------------------------------------------------------------------------
(* Claims about the order of the stages, checked under SpecRun.            *)

\* The stage has completed: its result is there.
ExportsRead == goodreads_df.columns # <<>>
PivotBuilt == goodreads_pivot_df.columns # <<>>
MeetingLogRead == bookclub_df.columns # <<>>
Merged == bookclub_processed_df.columns # <<>>
Sorted == returned # Null

\* No stage has completed before the stage ahead of it, and a stage that
\* raises has not completed.
StagesChained ==
    /\ PivotBuilt => ExportsRead
    /\ MeetingLogRead => PivotBuilt
    /\ MatchAndMergeCalled => MeetingLogRead
    /\ Merged => MatchAndMergeCalled
    /\ Sorted => Merged
    /\ ExportStageFails => ~PivotBuilt
    /\ MeetingLogFails => ~MeetingLogRead

\* C26 as stated: the stages complete in the order export read, pivot,
\* meeting-log read, match, override merge, sort; none completes before the
\* one ahead of it has, and once a stage has failed, the override merge
\* included, no later stage runs.
C26_StagesInOrder ==
    /\ StagesChained
    /\ (MatchAndMergeCalled /\ ManualReadFails) => ~Merged /\ ~Sorted

\* C26 amended: the same, except that a failure of the override merge of
\* class ValueError or FileNotFoundError is caught, and the sort then runs
\* on the matched table.
C26_StagesInOrderUnlessCaught ==
    /\ StagesChained
    /\ (MatchAndMergeCalled /\ ManualReadFails
           /\ ManualReadError \notin {"ValueError", "FileNotFoundError"}) =>
           ~Merged /\ ~Sorted
    /\ (Merged /\ ManualReadFails) =>
           bookclub_processed_df \in {InnerMatched} \cup sort_by_date(InnerMatched)

\* Every stage has completed, the override merge having added the column
\* of Laurynas to a matched row.
C26_Witness ==
    /\ pc = "returned"
    /\ ExportsRead /\ PivotBuilt /\ MeetingLogRead /\ MatchAndMergeCalled /\ Merged /\ Sorted
    /\ Len(InnerMatched.rows) = 2
    /\ "Laurynas" \in Range(bookclub_processed_df.columns)
    /\ "Laurynas" \notin Range(InnerMatched.columns)

----------------------------------------------------------------------------
(* Claims about duplicate titles in the override file, checked under Spec. *)

\* The number of override rows whose lower-cased title is that of matched
\* row m.
OverrideCount(m, overrides) ==
    Len(SelectSeq(overrides.rows,
            LAMBDA r : /\ to_lowercase(m["title"]) # Null
                       /\ to_lowercase(r["title"]) = to_lowercase(m["title"])))

\* max(1, k) for matched row m.
Copies(m, overrides) ==
    IF OverrideCount(m, overrides) = 0 THEN 1 ELSE OverrideCount(m, overrides)

\* The number of output rows of the matched rows before row i.
RECURSIVE CopiesBefore(_, _, _)
CopiesBefore(matched_df, overrides, i) ==
    IF i = 1 THEN 0
    ELSE CopiesBefore(matched_df, overrides, i - 1)
         + Copies(matched_df.rows[i - 1], overrides)

\* C27: merge_manual_ratings raises nothing, and its output has, for every
\* row of the matched table and in the order of that table, max(1, k) rows
\* stemming from it, k being the number of override rows whose lower-cased
\* title is the row's lower-cased title; it has no other row.
C27_OverrideFanOut ==
    MergeRan =>
        \A md \in {InnerMatched}, ov \in {Overrides} :
            /\ error = Null
            /\ Len(bookclub_processed_df.rows) = CopiesBefore(md, ov, Len(md.rows) + 1)
            /\ \A i \in DOMAIN md.rows :
                   \A j \in 1..Copies(md.rows[i], ov) :
                       StemsFrom(bookclub_processed_df.rows[CopiesBefore(md, ov, i) + j],
                                 md.rows[i], md, ov)

\* The meeting log has one meeting, the override file two rows of its
\* title: the processed table holds two rows for the one meeting.
C27_Witness ==
    /\ MergeRan
    /\ Len(bookclub_df.rows) = 1
    /\ Len(InnerMatched.rows) = 1
    /\ OverrideCount(InnerMatched.rows[1], Overrides) = 2
    /\ Len(bookclub_processed_df.rows) = 2
    /\ \A o \in Rows(bookclub_processed_df) : o["index"] = bookclub_df.rows[1]["index"]

----------------------------------------------------------------------------
(* Claims about the two tables match_and_merge_data returns, checked under *)
(* SpecMerge.                                                              *)

\* match_and_merge_data has returned.
Returned == pc = "merged"

\* Row o of a result table is meeting-log row b.
IsMeeting(o, b) == \A c \in Range(bookclub_df.columns) : o[c] = b[c]

\* The number of rows of the table that are meeting-log row b.
TimesIn(df, b) == Cardinality({k \in DOMAIN df.rows : IsMeeting(df.rows[k], b)})

\* C28: the two tables match_and_merge_data returns partition the meeting
\* log: every meeting-log row is in the processed table, once or more, and
\* not in the unmatched table, or it is in the unmatched table exactly once
\* and not in the processed table.
C28_MeetingRowsPartitioned ==
    Returned =>
        \A b \in Rows(bookclub_df) :
            \/ TimesIn(bookclub_processed_df, b) >= 1 /\ TimesIn(unmatched_df, b) = 0
            \/ TimesIn(bookclub_processed_df, b) = 0 /\ TimesIn(unmatched_df, b) = 1

\* Of two meetings one is in the processed table, twice, and the other,
\* which has no title, is in the unmatched table.
C28_Witness ==
    /\ Returned
    /\ Len(bookclub_df.rows) = 2
    /\ \E b \in Rows(bookclub_df) :
           /\ b["title"] = Some(Dune)
           /\ TimesIn(bookclub_processed_df, b) = 2
           /\ TimesIn(unmatched_df, b) = 0
    /\ \E b \in Rows(bookclub_df) :
           /\ b["title"] = Null
           /\ TimesIn(bookclub_processed_df, b) = 0
           /\ TimesIn(unmatched_df, b) = 1

\* The key the joins compare: the lower-cased title.
TitleKey(row) == to_lowercase(row["title"])

\* C29: every row of the processed table has the lower-cased title of some
\* pivot row; a rating in a column only the manual ratings file has is the
\* rating of an override row of that lower-cased title, so the rating of an
\* override whose book is in the unmatched table is not in the processed
\* table; and every processed row is a row of the matched table, the merge
\* having added no row.
C29_ProcessedTitlesInPivot ==
    Returned =>
        /\ \A o \in Rows(bookclub_processed_df) :
               /\ TitleKey(o) # Null
               /\ \E p \in Rows(goodreads_pivot_df) : TitleKey(p) = TitleKey(o)
               /\ \E i \in Rows(Val(matched["inner"])) :
                      \A c \in Range(Val(matched["inner"]).columns) : o[c] = i[c]
        /\ Len(bookclub_processed_df.rows) = Len(Val(matched["inner"]).rows)
        /\ manual_ratings_file # Null =>
               /\ \A o \in Rows(bookclub_processed_df) :
                      o["Laurynas"] # Null =>
                          \E m \in Rows(Overrides) :
                              /\ TitleKey(m) = TitleKey(o)
                              /\ m["Laurynas"] = o["Laurynas"]
               /\ \A m \in Rows(Overrides) :
                      (\E u \in Rows(unmatched_df) : TitleKey(u) = TitleKey(m)) =>
                          \A o \in Rows(bookclub_processed_df) :
                              /\ TitleKey(o) # TitleKey(m)
                              /\ o["Laurynas"] # m["Laurynas"]

\* Ubik is in the unmatched table and has an override rating of 3, while
\* Dune is in the processed table with its override rating of 2.
C29_Witness ==
    /\ Returned
    /\ manual_ratings_file # Null
    /\ \E u \in Rows(unmatched_df) : u["title"] = Some(Ubik)
    /\ \E m \in Rows(Overrides) :
           m["title"] = Some(Ubik) /\ m["Laurynas"] = Some(<<3, 1>>)
    /\ \E o \in Rows(bookclub_processed_df) :
           o["title"] = Some(Dune) /\ o["Laurynas"] = Some(<<2, 1>>)

----------------------------------------------------------------------------
(* A claim about export files the mapping does not name, checked under     *)
(* SpecPivot.                                                              *)

\* The paths of the long-format table that are no key of the mapping.
UnmappedPaths ==
    {Val(r["path"]) : r \in Rows(goodreads_df)} \ DOMAIN reviewer_mapping

\* The ratings the file of the path gives the book of the pivot row.
RatingsOf(path, row) ==
    SelectSeq([i \in DOMAIN goodreads_df.rows |->
                  IF /\ goodreads_df.rows[i]["path"] = Some(path)
                     /\ \A c \in Range(index_cols) : goodreads_df.rows[i][c] = row[c]
                  THEN goodreads_df.rows[i]["rating"] ELSE Null],
              LAMBDA c : c # Null)

\* C30: the pivot pivot_goodreads_data returns has, for every path of the
\* long-format table that is no key of the mapping, a column named by the
\* path itself, which holds the mean of the ratings the file gives the book;
\* and average_bookclub_rating is the sum of the non-null cells of the
\* columns named by the mapping's member names divided by their number,
\* whatever the column of the path holds.
C30_UnmappedPathKeepsNameOutOfAverage ==
    Pivoted =>
        \A path \in UnmappedPaths :
            /\ path \in Range(goodreads_pivot_df.columns)
            /\ path \notin Range(Members)
            /\ \A row \in Rows(goodreads_pivot_df) :
                   /\ \A given \in {RatingsOf(path, row)} :
                          IF given = <<>> THEN row[path] = Null
                          ELSE IsQuotient(row[path],
                                          FracSum([i \in DOMAIN given |-> Val(given[i])]),
                                          Len(given))
                   /\ \A rated \in {Rated(row, Members)} :
                          IF rated = <<>>
                          THEN row["average_bookclub_rating"] = Null
                          ELSE IsQuotient(row["average_bookclub_rating"],
                                          FracSum([i \in DOMAIN rated |-> Val(rated[i])]),
                                          Len(rated))

\* With Dion alone in the mapping, Peter's rating of 5 is in the column
\* named by the path of Peter's file and the club average is Dion's 3.
C30_Witness ==
    /\ Pivoted
    /\ UnmappedPaths = {PeterPath}
    /\ \E row \in Rows(goodreads_pivot_df) :
           /\ row[PeterPath] = Some(<<5, 1>>)
           /\ row["Dion"] = Some(<<3, 1>>)
           /\ row["average_bookclub_rating"] = Some(<<3, 1>>)

====
